---- MODULE Spec2Model ----
(***************************************************************************)
(* Model of the subtitle acquisition and translation pipeline of           *)
(* KurdForest (src/utils/subtitle.js).                                     *)
(*                                                                         *)
(* Text is modelled at character level: a string is a sequence of          *)
(* one-character strings, so that split, trim, includes, the cue-index     *)
(* test and the timestamp rewrite of srtToVtt are computed the way the     *)
(* JavaScript computes them.                                               *)
(***************************************************************************)
EXTENDS Integers, Sequences, FiniteSets, TLC

VARIABLES
    files,             \* the file system below BASE_DIR: path -> content or NoFile
    translationCache,  \* Map cacheKey -> translated text (process wide)
    requestQueue,      \* queued request closures, oldest first
    activeRequests,    \* counter of started, unfinished requests
    inFlight,          \* request closures suspended in `await fetch(url)`
    runs,              \* one activation of fetchAndTranslateSubtitle per run id
    hist,              \* history of each run (calls made, writes, errors)
    catalog,           \* what the subtitle provider can answer to a search
    faults,            \* number of failures the environment has produced so far
    convIn,            \* argument of a direct call (srtToVtt, vttPath) or request
    convOut,           \* its result or response
    web                \* the state behind the other routes: token stores, users,
                       \* comments, the page cache, the clock and the requests

vars == <<files, translationCache, requestQueue, activeRequests, inFlight,
          runs, hist, catalog, faults, convIn, convOut, web>>

pipeVars == <<files, translationCache, requestQueue, activeRequests, inFlight,
              runs, hist, catalog, faults>>

----------------------------------------------------------------------------
(* Characters and strings *)

NL == "\n"
Digits == {"0", "1", "2", "3", "4", "5", "6", "7", "8", "9"}
Space == {" ", "\t", "\r", NL}

Range(seq) == {seq[i] : i \in DOMAIN seq}

\* String.prototype.split('\n'): the pieces of s from position a on, the
\* scan being at position i
RECURSIVE SplitFrom(_, _, _)
SplitFrom(s, a, i) ==
    IF i > Len(s) THEN <<SubSeq(s, a, Len(s))>>
    ELSE IF s[i] = NL THEN <<SubSeq(s, a, i - 1)>> \o SplitFrom(s, i + 1, i + 1)
    ELSE SplitFrom(s, a, i + 1)

Split(s) == SplitFrom(s, 1, 1)

\* Array.prototype.join('\n')
RECURSIVE Join(_)
Join(ls) ==
    IF ls = <<>> THEN <<>>
    ELSE IF Len(ls) = 1 THEN ls[1]
    ELSE ls[1] \o <<NL>> \o Join(Tail(ls))

\* truthiness of line.trim()
TrimNonEmpty(line) == \E i \in 1..Len(line) : line[i] \notin Space

\* line.includes('-->')
IncludesArrow(line) ==
    \E i \in 1..(Len(line) - 2) :
        line[i] = "-" /\ line[i + 1] = "-" /\ line[i + 2] = ">"

\* /^\d+$/.test(line)
AllDigits(line) == Len(line) > 0 /\ \A i \in 1..Len(line) : line[i] \in Digits

----------------------------------------------------------------------------
(* srtToVtt *)

VttHeader == <<"W", "E", "B", "V", "T", "T", NL, NL>>

\* /(\d{2}):(\d{2}):(\d{2}),(\d{3})/ matches s at position i
TimestampAt(s, i) ==
    /\ i + 11 <= Len(s)
    /\ s[i] \in Digits /\ s[i + 1] \in Digits /\ s[i + 2] = ":"
    /\ s[i + 3] \in Digits /\ s[i + 4] \in Digits /\ s[i + 5] = ":"
    /\ s[i + 6] \in Digits /\ s[i + 7] \in Digits /\ s[i + 8] = ","
    /\ s[i + 9] \in Digits /\ s[i + 10] \in Digits /\ s[i + 11] \in Digits

\* the matches of the g flag from position i on: leftmost first, the scan
\* going on behind each match
RECURSIVE Matches(_, _)
Matches(s, i) ==
    IF i + 11 > Len(s) THEN {}
    ELSE IF TimestampAt(s, i) THEN {i} \cup Matches(s, i + 12)
    ELSE Matches(s, i + 1)

\* String.prototype.replace(regex, '$1:$2:$3.$4'): the comma of every match
\* becomes a period
ReplaceTimestamps(s) ==
    LET m == Matches(s, 1) IN
    [j \in 1..Len(s) |-> IF (j - 8) \in m THEN "." ELSE s[j]]

srtToVtt(srtContent) == VttHeader \o ReplaceTimestamps(srtContent)

----------------------------------------------------------------------------
(* Program constants and literals *)

MAX_CONCURRENT_REQUESTS == 10
retries == 3

EN == <<"e", "n">>
CKB == <<"c", "k", "b">>
FR == <<"f", "r">>
Null == <<"n", "u", "l", "l">>      \* null, as a template literal renders it
NoFile == <<"ENOENT">>              \* no file at the path

ErrNoSubtitles == "No subtitles found"
ErrProvider == "provider error"
ErrDownload == "Subtitle download failed: 404"
ErrWrite == "EACCES: permission denied, open"
ErrGeneric == "Failed after 3 attempts"

----------------------------------------------------------------------------
(* The environment: media, documents, the translation service *)

\* the concurrent calls of fetchAndTranslateSubtitle
Runs == {"r1", "r2"}

\* failures (of mkdir, search, download, translation call, write) the
\* environment produces in one behaviour
MaxFaults == 3

\* the environment may fail `n` more times
MayFail(n) == faults + n <= MaxFaults

MovieKey == [tmdbId |-> <<"5">>, type |-> "movie", season |-> Null, episode |-> Null]
EpisodeKey == [tmdbId |-> <<"5">>, type |-> "tv", season |-> <<"1">>, episode |-> <<"2">>]
Keys == {MovieKey, EpisodeKey}

ImdbId == <<"t", "t", "7">>

Ts1 == <<"0", "0", ":", "0", "1", ":", "0", "2", ",", "3", "4", "5">>
Ts2 == <<"0", "0", ":", "0", "1", ":", "0", "4", ",", "0", "0", "0">>
Arrow == <<" ", "-", "-", ">", " ">>
TimingLine == Ts1 \o Arrow \o Ts2
Hi == <<"h", "i">>
Yo == <<"y", "o">>

Ok == <<"o", "k">>

DocA == Join(<<<<"1">>, TimingLine, Hi, Yo, Hi>>)
DocB == Join(<<Hi, Ok>>)

UrlA == "https://sub.example/a.srt"
UrlB == "https://sub.example/b.srt"

\* data.translation of an OK answer of the translation service: the
\* translation, or nothing for a line the service has no translation of
ServiceTranslation(text) == IF text = Ok THEN <<>> ELSE <<"#">> \o text

----------------------------------------------------------------------------
(* Cache Store *)

SLASH == <<"/">>

DigitChars == <<"0", "1", "2", "3", "4", "5", "6", "7", "8", "9">>

\* String(n) and `${n}` of a non-negative integer
RECURSIVE String(_)
String(n) ==
    IF n < 10 THEN <<DigitChars[n + 1]>>
    ELSE String(n \div 10) \o <<DigitChars[(n % 10) + 1]>>

\* the segments of a path: the pieces of s between slashes, from position a
\* on, the scan being at position i
RECURSIVE SegmentsFrom(_, _, _)
SegmentsFrom(s, a, i) ==
    IF i > Len(s) THEN <<SubSeq(s, a, Len(s))>>
    ELSE IF s[i] = "/" THEN <<SubSeq(s, a, i - 1)>> \o SegmentsFrom(s, i + 1, i + 1)
    ELSE SegmentsFrom(s, a, i + 1)

\* path.normalize of a relative path: empty and '.' segments are dropped and
\* a '..' segment removes the segment before it, or stays when there is none
RECURSIVE normalize(_, _)
normalize(segments, out) ==
    IF segments = <<>> THEN out
    ELSE LET h == Head(segments)
             up == <<".", ".">>
         IN  IF h = <<>> \/ h = <<".">> THEN normalize(Tail(segments), out)
             ELSE IF h = up /\ out # <<>> /\ out[Len(out)] # up
                  THEN normalize(Tail(segments), SubSeq(out, 1, Len(out) - 1))
             ELSE normalize(Tail(segments), Append(out, h))

RECURSIVE JoinSegments(_)
JoinSegments(segments) ==
    IF segments = <<>> THEN <<>>
    ELSE IF Len(segments) = 1 THEN segments[1]
    ELSE segments[1] \o SLASH \o JoinSegments(Tail(segments))

\* path.join(...parts), relative to BASE_DIR: the parts joined by slashes,
\* normalized
pathJoin(parts) ==
    LET joined == JoinSegments(parts)
    IN  JoinSegments(normalize(SegmentsFrom(joined, 1, 1), <<>>))

\* folderPath and vttPath, relative to BASE_DIR
vttPath(tmdbId, type, season, episode) ==
    LET folderPath ==
            IF type = "movie"
            THEN pathJoin(<<<<"m", "o", "v", "i", "e", "s">>, tmdbId>>)
            ELSE pathJoin(<<<<"t", "v", "s", "h", "o", "w", "s">>, tmdbId,
                            <<"s", "e", "a", "s", "o", "n">> \o season,
                            <<"e", "p", "i", "s", "o", "d", "e">> \o episode>>)
    IN  pathJoin(<<folderPath, <<"k", "u", "r", "d", "i", "s", "h", ".", "v", "t", "t">>>>)

\* the paths of the two media of the environment, computed once
KeyPaths == [k \in Keys |-> vttPath(k.tmdbId, k.type, k.season, k.episode)]

PathOf(k) ==
    IF k \in Keys THEN KeyPaths[k]
    ELSE vttPath(k.tmdbId, k.type, k.season, k.episode)

Paths == {PathOf(k) : k \in Keys}

\* mutant: the cache check never finds the artifact
existsSyncNever(fs, p) == FALSE

\* fs.existsSync(vttPath)
existsSync(fs, p) == fs[p] # NoFile

\* fs.writeFileSync(vttPath, vttContent, 'utf8') that returns normally
writeFileSync(fs, p, content) == [fs EXCEPT ![p] = content]

----------------------------------------------------------------------------
(* Translation engine: translateTextWithQueue, processQueue, translateSubtitle *)

\* `${sourceLang}-${targetLang}-${text}`
CacheKeyOf(sourceLang, targetLang, text) ==
    sourceLang \o <<"-">> \o targetLang \o <<"-">> \o text

\* the request closure pushed by translateTextWithQueue called by run r
Request(r, text) ==
    [run |-> r, text |-> text, cacheKey |-> CacheKeyOf(EN, CKB, text)]

\* q = [queue, active, flight, started]: requestQueue, activeRequests, the
\* started closures that wait for the HTTP answer, and the closures started
\* during the current step, in start order
\* mutant: `<=` in place of `<` in the loop condition
RECURSIVE processQueueOffByOne(_)
processQueueOffByOne(q) ==
    IF Len(q.queue) > 0 /\ q.active <= MAX_CONCURRENT_REQUESTS
    THEN processQueueOffByOne([queue |-> Tail(q.queue),
                               active |-> q.active + 1,
                               flight |-> q.flight \cup {Head(q.queue)},
                               started |-> Append(q.started, Head(q.queue))])
    ELSE q

\* mutant: activeRequests++ is missing from the loop
RECURSIVE processQueueNoCount(_)
processQueueNoCount(q) ==
    IF Len(q.queue) > 0 /\ q.active < MAX_CONCURRENT_REQUESTS
    THEN processQueueNoCount([queue |-> Tail(q.queue),
                              active |-> q.active,
                              flight |-> q.flight \cup {Head(q.queue)},
                              started |-> Append(q.started, Head(q.queue))])
    ELSE q

\* mutant: requestQueue.pop() in place of requestQueue.shift()
RECURSIVE processQueuePop(_)
processQueuePop(q) ==
    IF Len(q.queue) > 0 /\ q.active < MAX_CONCURRENT_REQUESTS
    THEN processQueuePop([queue |-> SubSeq(q.queue, 1, Len(q.queue) - 1),
                          active |-> q.active + 1,
                          flight |-> q.flight \cup {q.queue[Len(q.queue)]},
                          started |-> Append(q.started, q.queue[Len(q.queue)])])
    ELSE q

RECURSIVE processQueue(_)
processQueue(q) ==
    IF Len(q.queue) > 0 /\ q.active < MAX_CONCURRENT_REQUESTS
    THEN processQueue([queue |-> Tail(q.queue),
                       active |-> q.active + 1,
                       flight |-> q.flight \cup {Head(q.queue)},
                       started |-> Append(q.started, Head(q.queue))])
    ELSE q

\* mutant: the cue-index test is missing from the filter
TranslatableNoIndex(line) == TrimNonEmpty(line) /\ ~IncludesArrow(line)

\* the filter of translateSubtitle: lines that are submitted for translation
Translatable(line) ==
    TrimNonEmpty(line) /\ ~IncludesArrow(line) /\ ~AllDigits(line)

\* [...new Set(lines)]: first occurrences, in order
RECURSIVE Unique(_, _)
Unique(ls, seen) ==
    IF ls = <<>> THEN <<>>
    ELSE IF Head(ls) \in seen THEN Unique(Tail(ls), seen)
    ELSE <<Head(ls)>> \o Unique(Tail(ls), seen \cup {Head(ls)})

uniqueLines(content) == Unique(SelectSeq(Split(content), Translatable), {})

\* mutant: translationMap.set(translated, original)
CollectSwapped(translationMap, line, translated) == (translated :> line) @@ translationMap

\* .then(translated => ({original: line, translated})) and
\* translationMap.set(result.value.original, result.value.translated)
Collect(translationMap, line, translated) == (line :> translated) @@ translationMap

\* mutant: translationCache is not consulted
translateTextWithQueueNoCache(t, cache, r, text) ==
    LET req == Request(r, text) IN
    [t EXCEPT !.q = processQueue([@ EXCEPT !.queue = Append(@, req)]),
              !.pending = @ \cup {text}]

\* mutant: the request is pushed and processQueue is not called
translateTextWithQueueNoKick(t, cache, r, text) ==
    LET req == Request(r, text) IN
    IF req.cacheKey \in DOMAIN cache
    THEN [t EXCEPT !.map = Collect(@, text, cache[req.cacheKey]),
                   !.hits = Append(@, text)]
    ELSE [t EXCEPT !.q.queue = Append(@, req),
                   !.pending = @ \cup {text}]

\* t = [q, map, pending, hits]: the queue state, the translationMap entries of
\* the lines already resolved, the lines that wait for their request, and
\* the lines answered from translationCache, in order.
\* translateTextWithQueue(text) called by run r with the cache `cache`
translateTextWithQueue(t, cache, r, text) ==
    LET req == Request(r, text) IN
    IF req.cacheKey \in DOMAIN cache
    THEN [t EXCEPT !.map = Collect(@, text, cache[req.cacheKey]),
                   !.hits = Append(@, text)]
    ELSE [t EXCEPT !.q = processQueue([@ EXCEPT !.queue = Append(@, req)]),
                   !.pending = @ \cup {text}]

\* uniqueLines.map(line => translateTextWithQueue(line)...)
RECURSIVE TranslateAll(_, _, _, _)
TranslateAll(t, cache, r, ls) ==
    IF ls = <<>> THEN t
    ELSE TranslateAll(translateTextWithQueue(t, cache, r, Head(ls)), cache, r, Tail(ls))

\* translationMap.get(line) || line
Lookup(translationMap, line) ==
    IF line \in DOMAIN translationMap /\ translationMap[line] # <<>>
    THEN translationMap[line]
    ELSE line

\* mutant: the reconstruction keeps the translated lines only
ReconstructFiltered(content, translationMap) ==
    LET ls == SelectSeq(Split(content), Translatable) IN
    Join([i \in 1..Len(ls) |-> Lookup(translationMap, ls[i])])

\* mutant: the n-th translatable line takes the result of the n-th distinct
\* line (lineIndex in place of the line as the key)
ReconstructByIndex(content, translationMap) ==
    LET ls == Split(content)
        u == Unique(SelectSeq(ls, Translatable), {})
        n(i) == Len(SelectSeq(SubSeq(ls, 1, i), Translatable))
    IN  Join([i \in 1..Len(ls) |->
                IF Translatable(ls[i])
                THEN Lookup(translationMap, u[IF n(i) <= Len(u) THEN n(i) ELSE Len(u)])
                ELSE ls[i]])

\* the reconstruction of translateSubtitle: content.split('\n').map(...).join('\n')
Reconstruct(content, translationMap) ==
    LET ls == Split(content) IN
    Join([i \in 1..Len(ls) |->
            IF Translatable(ls[i]) THEN Lookup(translationMap, ls[i]) ELSE ls[i]])

\* subs.find(s => s.language === 'en') || subs[0]
RECURSIVE Find(_)
Find(subs) ==
    IF subs = <<>> THEN <<>>
    ELSE IF Head(subs).language = EN THEN <<Head(subs)>>
    ELSE Find(Tail(subs))

\* mutant: the language of the tracks is ignored
SelectTrackFirst(subs) == subs[1]

SelectTrack(subs) == IF Find(subs) # <<>> THEN Find(subs)[1] ELSE subs[1]

----------------------------------------------------------------------------
(* Pipeline orchestrator: fetchAndTranslateSubtitle *)

NoResult == [success |-> FALSE, path |-> <<>>, fromCache |-> FALSE, error |-> ""]
CacheHit(p) == [success |-> TRUE, path |-> p, fromCache |-> TRUE, error |-> ""]
Produced(p) == [success |-> TRUE, path |-> p, fromCache |-> FALSE, error |-> ""]
Failed(msg) == [success |-> FALSE, path |-> <<>>, fromCache |-> FALSE, error |-> msg]

IdleRun ==
    [pc |-> "idle", key |-> MovieKey, attempts |-> 0, imdbId |-> <<>>,
     url |-> "", srtContent |-> <<>>, uniqueLines |-> <<>>, pending |-> {},
     translationMap |-> <<>>,
     result |-> NoResult]

NoHist ==
    [priorOk |-> FALSE, resolveCalls |-> 0, searchCalls |-> 0, downloadCalls |-> 0,
     searchFails |-> 0, downloadFails |-> 0, writeFails |-> 0,
     calls |-> <<>>, okCalls |-> 0, hits |-> 0, stages |-> <<>>,
     resolved |-> <<>>, overtaken |-> FALSE,
     output |-> <<>>, written |-> NoFile, writes |-> 0, lastError |-> "",
     endExists |-> FALSE, criteria |-> {}, sleeps |-> 0]

\* mutant: the search ignores the IMDb id
searchParamsTmdbOnly(imdbId, k) ==
    IF k.type = "movie"
    THEN [tmdb_id |-> k.tmdbId, format |-> "srt"]
    ELSE [tmdb_id |-> k.tmdbId, season |-> k.season, episode |-> k.episode,
          format |-> "srt"]

\* searchParams: by IMDb id when fetchImdbId returned one (null is <<>>),
\* by TMDb id otherwise
searchParams(imdbId, k) ==
    IF imdbId # <<>>
    THEN IF k.type = "movie"
         THEN [imdb_id |-> imdbId, format |-> "srt"]
         ELSE [imdb_id |-> imdbId, season |-> k.season, episode |-> k.episode,
               format |-> "srt"]
    ELSE IF k.type = "movie"
         THEN [tmdb_id |-> k.tmdbId, format |-> "srt"]
         ELSE [tmdb_id |-> k.tmdbId, season |-> k.season, episode |-> k.episode,
               format |-> "srt"]

\* s = [run, h, fs]: a run, its history and the file system

\* the head of `while (attempts < retries)`: the next searchSubtitles call,
\* or the statement after the loop
LoopHead(s) ==
    IF s.run.attempts < retries
    THEN [s EXCEPT !.run.pc = "search",
                   !.h.searchCalls = @ + 1,
                   !.h.criteria = @ \cup {searchParams(s.run.imdbId, s.run.key)},
                   !.h.stages = <<>>]
    ELSE [s EXCEPT !.run.pc = "done", !.run.result = Failed(ErrGeneric)]

\* a run that has returned records whether its artifact exists at that time
Ended(s) ==
    IF s.run.pc = "done"
    THEN [s EXCEPT !.h.endExists = existsSync(s.fs, PathOf(s.run.key))]
    ELSE s

\* mutant: the catch block returns on the first failure
CatchNoRetry(s, msg) ==
    [s EXCEPT !.run.attempts = @ + 1, !.run.pc = "done",
              !.run.result = Failed(msg), !.h.lastError = msg]

\* mutant: `>` in place of `>=` in the catch block
CatchOffByOne(s, msg) ==
    LET a == s.run.attempts + 1 IN
    IF a > retries
    THEN [s EXCEPT !.run.attempts = a, !.run.pc = "done",
                   !.run.result = Failed(msg), !.h.lastError = msg]
    ELSE [s EXCEPT !.run.attempts = a, !.run.pc = "sleep", !.h.lastError = msg]

\* the catch block
Catch(s, msg) ==
    LET a == s.run.attempts + 1 IN
    IF a >= retries
    THEN [s EXCEPT !.run.attempts = a, !.run.pc = "done",
                   !.run.result = Failed(msg), !.h.lastError = msg]
    ELSE [s EXCEPT !.run.attempts = a, !.run.pc = "sleep", !.h.lastError = msg,
                   !.h.sleeps = @ + 1]

\* mutant: a failure of writeFileSync is swallowed
FinishSwallow(s, writeOk) ==
    LET p == PathOf(s.run.key)
        translatedSrt == Reconstruct(s.run.srtContent, s.run.translationMap)
        vttContent == srtToVtt(translatedSrt)
        t == [s EXCEPT !.h.output = translatedSrt,
                       !.h.stages = @ \o <<"translate", "convert">>,
                       !.run.pc = "done",
                       !.run.result = Produced(p)]
    IN  IF writeOk
        THEN [t EXCEPT !.fs = writeFileSync(s.fs, p, vttContent),
                       !.h.stages = @ \o <<"write">>,
                       !.h.written = vttContent,
                       !.h.writes = @ + 1]
        ELSE [t EXCEPT !.h.writeFails = @ + 1]

\* after `await translateSubtitle(srtContent)`: reconstruction, srtToVtt,
\* writeFileSync (which returns, or throws and leaves the file as it was) and
\* the return
Finish(s, writeOk) ==
    LET p == PathOf(s.run.key)
        translatedSrt == Reconstruct(s.run.srtContent, s.run.translationMap)
        vttContent == srtToVtt(translatedSrt)
        t == [s EXCEPT !.h.output = translatedSrt,
                       !.h.stages = @ \o <<"translate", "convert">>]
    IN  IF writeOk
        THEN [t EXCEPT !.fs = writeFileSync(s.fs, p, vttContent),
                       !.h.stages = @ \o <<"write">>,
                       !.h.written = vttContent,
                       !.h.writes = @ + 1,
                       !.run.pc = "done",
                       !.run.result = Produced(p)]
        ELSE Catch([t EXCEPT !.h.writeFails = @ + 1], ErrWrite)

\* the history of run r after the requests `started` were started
Called(h, r, started) ==
    LET mine == SelectSeq(started, LAMBDA req : req.run = r) IN
    [h EXCEPT !.calls = @ \o [i \in 1..Len(mine) |-> mine[i].text]]

State(r) == [run |-> runs[r], h |-> hist[r], fs |-> files]

\* the request for `text` completes while a line that stands earlier in the
\* document of the run still waits for its request
Overtakes(run, text) ==
    LET u == run.uniqueLines IN
    \E i, j \in 1..Len(u) : i < j /\ u[j] = text /\ u[i] \in run.pending

\* the call of fetchAndTranslateSubtitle, up to its first await
Start(r, k) ==
    /\ runs[r].pc = "idle"
    /\ LET p == PathOf(k)
           prior == \E o \in Runs : /\ runs[o].pc = "done"
                                    /\ runs[o].key = k
                                    /\ runs[o].result.success
           h0 == [hist[r] EXCEPT !.priorOk = prior]
       IN  IF existsSync(files, p)
           THEN /\ runs' = [runs EXCEPT ![r] = [@ EXCEPT !.pc = "done", !.key = k,
                                                        !.result = CacheHit(p)]]
                /\ hist' = [hist EXCEPT ![r] = [h0 EXCEPT !.endExists = TRUE]]
                /\ faults' = faults
           ELSE \E dirOk \in BOOLEAN :
                  IF dirOk
                  THEN /\ runs' = [runs EXCEPT ![r] = [@ EXCEPT !.pc = "resolve", !.key = k]]
                       /\ hist' = [hist EXCEPT ![r] = [h0 EXCEPT !.resolveCalls = @ + 1]]
                       /\ faults' = faults
                  ELSE /\ MayFail(1)
                       /\ runs' = [runs EXCEPT ![r] = [@ EXCEPT !.pc = "threw", !.key = k]]
                       /\ hist' = [hist EXCEPT ![r] = h0]
                       /\ faults' = faults + 1
    /\ UNCHANGED <<files, translationCache, requestQueue, activeRequests, inFlight,
                   catalog, convIn, convOut, web>>

\* fetchImdbId returns: data.imdb_id || null of an OK answer, or null on a
\* network error or a non-OK status (null is <<>>)
ResolveReturn(r, answer) ==
    /\ runs[r].pc = "resolve"
    /\ LET imdbId == IF answer = "ok" THEN catalog.imdb[runs[r].key] ELSE <<>>
           s == LoopHead([State(r) EXCEPT !.run.imdbId = imdbId])
       IN  /\ answer # "ok" => MayFail(1)
           /\ faults' = IF answer = "ok" THEN faults ELSE faults + 1
           /\ runs' = [runs EXCEPT ![r] = s.run]
           /\ hist' = [hist EXCEPT ![r] = s.h]
    /\ UNCHANGED <<files, translationCache, requestQueue, activeRequests, inFlight,
                   catalog, convIn, convOut, web>>

\* searchSubtitles returns the tracks of the media, or fails: it throws, or
\* returns null or an empty list
SearchReturn(r, answer) ==
    /\ runs[r].pc = "search"
    /\ LET subs == IF answer = "ok" THEN catalog.tracks[runs[r].key] ELSE <<>>
           failed == answer # "ok"
           s0 == [State(r) EXCEPT !.h.searchFails = @ + 1]
           s == IF answer = "throw" THEN Ended(Catch(s0, ErrProvider))
                ELSE IF answer = "null" \/ Len(subs) = 0
                     THEN Ended(Catch(s0, ErrNoSubtitles))
                ELSE [State(r) EXCEPT !.run.pc = "download",
                                      !.run.url = SelectTrack(subs).url,
                                      !.h.stages = @ \o <<"search">>,
                                      !.h.downloadCalls = @ + 1]
       IN  /\ failed => MayFail(1)
           /\ faults' = IF failed THEN faults + 1 ELSE faults
           /\ runs' = [runs EXCEPT ![r] = s.run]
           /\ hist' = [hist EXCEPT ![r] = s.h]
    /\ UNCHANGED <<files, translationCache, requestQueue, activeRequests, inFlight,
                   catalog, convIn, convOut, web>>

\* sleep(3000) is over
SleepReturn(r) ==
    /\ runs[r].pc = "sleep"
    /\ LET s == LoopHead(State(r))
       IN  /\ runs' = [runs EXCEPT ![r] = s.run]
           /\ hist' = [hist EXCEPT ![r] = s.h]
    /\ UNCHANGED <<files, translationCache, requestQueue, activeRequests, inFlight,
                   catalog, faults, convIn, convOut, web>>

\* downloadSubtitle returns the text or throws; translateSubtitle then runs up
\* to `await Promise.allSettled`, and to the end of the attempt when no line
\* waits for a request
DownloadReturn(r, ok, writeOk) ==
    /\ runs[r].pc = "download"
    /\ IF ~ok
       THEN LET s == Ended(Catch([State(r) EXCEPT !.h.downloadFails = @ + 1], ErrDownload))
            IN  /\ MayFail(1)
                /\ writeOk
                /\ faults' = faults + 1
                /\ runs' = [runs EXCEPT ![r] = s.run]
                /\ hist' = [hist EXCEPT ![r] = s.h]
                /\ UNCHANGED <<files, requestQueue, activeRequests, inFlight>>
       ELSE LET srtContent == catalog.body[runs[r].url]
                t0 == [q |-> [queue |-> requestQueue, active |-> activeRequests,
                              flight |-> inFlight, started |-> <<>>],
                       map |-> <<>>, pending |-> {}, hits |-> <<>>]
                unique == uniqueLines(srtContent)
                t == TranslateAll(t0, translationCache, r, unique)
                s0 == [State(r) EXCEPT !.run.pc = "translate",
                                       !.run.srtContent = srtContent,
                                       !.run.uniqueLines = unique,
                                       !.run.translationMap = t.map,
                                       !.run.pending = t.pending,
                                       !.h.stages = @ \o <<"download">>,
                                       !.h.hits = @ + Len(t.hits),
                                       !.h.overtaken = FALSE,
                                       !.h.resolved =
                                           [l \in Range(t.hits) |->
                                               translationCache[Request(r, l).cacheKey]]]
                s == IF t.pending = {} THEN Ended(Finish(s0, writeOk)) ELSE s0
            IN  /\ ~writeOk => (t.pending = {} /\ MayFail(1))
                /\ faults' = IF writeOk THEN faults ELSE faults + 1
                /\ requestQueue' = t.q.queue
                /\ activeRequests' = t.q.active
                /\ inFlight' = t.q.flight
                /\ runs' = [runs EXCEPT ![r] = s.run]
                /\ hist' = [o \in Runs |->
                              Called(IF o = r THEN s.h ELSE hist[o], o, t.q.started)]
                /\ files' = s.fs
    /\ UNCHANGED <<translationCache, catalog, convIn, convOut, web>>

\* what the request resolves with: data.translation || text of an OK answer,
\* or the text, from the catch block
Translated(text, answer) ==
    IF answer = "ok" /\ ServiceTranslation(text) # <<>>
    THEN ServiceTranslation(text)
    ELSE text

\* mutant: the fallback of the catch block is stored too
CacheSetAlways(cache, cacheKey, answer, translated) ==
    (cacheKey :> translated) @@ cache

\* translationCache.set(cacheKey, translated), reached when nothing threw
CacheSet(cache, cacheKey, answer, translated) ==
    IF answer = "error" THEN cache
    ELSE (cacheKey :> translated) @@ cache

\* the HTTP call of a started request returns: OK with a translation, OK
\* without one, or an error (network error, non-OK status). The request
\* resolves, frees its slot and calls processQueue; the run whose last line
\* this was goes on to the end of its attempt.
TranslateReturn(req, answer, writeOk) ==
    /\ req \in inFlight
    /\ LET r == req.run
           translated == Translated(req.text, answer)
           q == processQueue([queue |-> requestQueue,
                              active |-> activeRequests - 1,
                              flight |-> inFlight \ {req},
                              started |-> <<>>])
           s0 == [State(r) EXCEPT !.run.translationMap = Collect(@, req.text, translated),
                                  !.run.pending = @ \ {req.text},
                                  !.h.okCalls = @ + (IF answer = "error" THEN 0 ELSE 1),
                                  !.h.overtaken = @ \/ Overtakes(runs[r], req.text),
                                  !.h.resolved = (req.text :> translated) @@ @]
           s == IF s0.run.pending = {} THEN Ended(Finish(s0, writeOk)) ELSE s0
           cost == (IF answer = "error" THEN 1 ELSE 0) + (IF writeOk THEN 0 ELSE 1)
       IN  /\ ~writeOk => s0.run.pending = {}
           /\ MayFail(cost)
           /\ faults' = faults + cost
           /\ translationCache' = CacheSet(translationCache, req.cacheKey, answer, translated)
           /\ requestQueue' = q.queue
           /\ activeRequests' = q.active
           /\ inFlight' = q.flight
           /\ runs' = [runs EXCEPT ![r] = s.run]
           /\ hist' = [o \in Runs |->
                         Called(IF o = r THEN s.h ELSE hist[o], o, q.started)]
           /\ files' = s.fs
    /\ UNCHANGED <<catalog, convIn, convOut, web>>

----------------------------------------------------------------------------
(* Specification of the pipeline: NumRuns calls of fetchAndTranslateSubtitle *)

\* the movie has an IMDb id and two tracks, the episode neither an IMDb id
\* nor an English track
Catalog ==
    [imdb |-> (MovieKey :> ImdbId) @@ (EpisodeKey :> <<>>),
     tracks |-> (MovieKey :> <<[language |-> FR, url |-> UrlB],
                               [language |-> EN, url |-> UrlA]>>)
                @@ (EpisodeKey :> <<[language |-> FR, url |-> UrlB]>>),
     body |-> (UrlA :> DocA) @@ (UrlB :> DocB)]

\* no other route is in use
NoWeb == [now |-> 0]

\* the subtitle pipeline at rest
InitStore ==
    /\ files = [p \in Paths |-> NoFile]
    /\ translationCache = <<>>
    /\ requestQueue = <<>>
    /\ activeRequests = 0
    /\ inFlight = {}
    /\ runs = [r \in Runs |-> IdleRun]
    /\ hist = [r \in Runs |-> NoHist]

InitPipe ==
    /\ web = NoWeb
    /\ InitStore

Init ==
    /\ InitPipe
    /\ faults = 0
    /\ catalog = Catalog
    /\ convIn = <<>>
    /\ convOut = <<>>

\* the first call asks for the movie, the second for the movie or the episode
Asked(r) == IF r = "r1" THEN {MovieKey} ELSE Keys

Next ==
    \/ \E r \in Runs : \E k \in Asked(r) : Start(r, k)
    \/ \E r \in Runs, answer \in {"ok", "error"} : ResolveReturn(r, answer)
    \/ \E r \in Runs, answer \in {"ok", "throw", "null", "empty"} : SearchReturn(r, answer)
    \/ \E r \in Runs : SleepReturn(r)
    \/ \E r \in Runs, ok \in BOOLEAN, writeOk \in BOOLEAN : DownloadReturn(r, ok, writeOk)
    \/ \E req \in inFlight, answer \in {"ok", "error"}, writeOk \in BOOLEAN :
          TranslateReturn(req, answer, writeOk)

Spec == Init /\ [][Next]_vars

----------------------------------------------------------------------------
(* Specification of the request pool: a document with more distinct lines   *)
(* than MAX_CONCURRENT_REQUESTS, and a second run that queues behind it     *)

PoolLines == 11
Alphabet == <<"a", "b", "c", "d", "e", "f", "g", "h", "i", "j", "k", "l", "m", "n">>
PoolDoc == Join([i \in 1..PoolLines |-> <<Alphabet[i]>>])

PoolCatalog ==
    [imdb |-> (MovieKey :> ImdbId) @@ (EpisodeKey :> <<>>),
     tracks |-> (MovieKey :> <<[language |-> EN, url |-> UrlA]>>)
                @@ (EpisodeKey :> <<[language |-> FR, url |-> UrlB]>>),
     body |-> (UrlA :> PoolDoc) @@ (UrlB :> DocB)]

\* the environment fails at most once
InitPool ==
    /\ InitPipe
    /\ faults = MaxFaults - 1
    /\ catalog = PoolCatalog
    /\ convIn = <<>>
    /\ convOut = <<>>

NextPool ==
    \/ Start("r1", MovieKey)
    \/ Start("r2", EpisodeKey)
    \/ \E r \in Runs : ResolveReturn(r, "ok")
    \/ \E r \in Runs : SearchReturn(r, "ok")
    \/ \E r \in Runs : SleepReturn(r)
    \/ \E r \in Runs, writeOk \in BOOLEAN : DownloadReturn(r, TRUE, writeOk)
    \/ \E req \in inFlight, answer \in {"ok", "error"}, writeOk \in BOOLEAN :
          TranslateReturn(req, answer, writeOk)

SpecPool == InitPool /\ [][NextPool]_vars

\* the requests the two runs can push
PoolRequests ==
    {Request("r1", l) : l \in Range(Split(PoolDoc))}
        \cup {Request("r2", l) : l \in Range(Split(DocB))}

\* the lines for which the call of the translation service fails
FailingLines == {<<"b">>, Hi}

AnswerFor(text) == IF text \in FailingLines THEN "error" ELSE "ok"

\* the environment fails the call of each run for a failing line
InitLive ==
    /\ InitPipe
    /\ faults = MaxFaults - 2
    /\ catalog = PoolCatalog
    /\ convIn = <<>>
    /\ convOut = <<>>

\* the HTTP call of some started request returns or fails
SomeCallReturns ==
    \E req \in inFlight : TranslateReturn(req, AnswerFor(req.text), TRUE)

NextLive ==
    \/ Start("r1", MovieKey)
    \/ Start("r2", EpisodeKey)
    \/ \E r \in Runs : ResolveReturn(r, "ok")
    \/ \E r \in Runs : SearchReturn(r, "ok")
    \/ \E r \in Runs : DownloadReturn(r, TRUE, TRUE)
    \/ SomeCallReturns

\* what the return of an outstanding call does to inFlight: the request
\* leaves it, and processQueue starts queued requests in the free slot
CallReturns ==
    \E req \in inFlight :
        inFlight' = processQueue([queue |-> requestQueue,
                                  active |-> activeRequests - 1,
                                  flight |-> inFlight \ {req},
                                  started |-> <<>>]).flight

\* while calls of the translation service are outstanding, one of them
\* returns or fails in the end
SpecLive == InitLive /\ [][NextLive]_vars /\ WF_inFlight(CallReturns)

----------------------------------------------------------------------------
(* Specification of translateSubtitle on documents of a few lines          *)

MaxDocLines == 3

\* an empty line, a blank line, a cue index, a timing line, and text lines,
\* two of which differ in their leading white space only
DocLines == {<<>>, <<" ">>, <<"1">>, TimingLine, Hi, <<" ">> \o Hi, Ok}

LineDocs(n) == UNION {[1..k -> DocLines] : k \in 1..n}

\* the movie has one English track, whose document is d
LineCatalog(d) ==
    [imdb |-> (MovieKey :> ImdbId) @@ (EpisodeKey :> <<>>),
     tracks |-> (MovieKey :> <<[language |-> EN, url |-> UrlA]>>)
                @@ (EpisodeKey :> <<>>),
     body |-> (UrlA :> Join(d)) @@ (UrlB :> DocB)]

\* the environment fails at most one call of the translation service
InitLines ==
    /\ InitPipe
    /\ faults = MaxFaults - 1
    /\ catalog \in {LineCatalog(d) : d \in LineDocs(MaxDocLines)}
    /\ convIn = <<>>
    /\ convOut = <<>>

NextLines ==
    \/ Start("r1", MovieKey)
    \/ ResolveReturn("r1", "ok")
    \/ SearchReturn("r1", "ok")
    \/ DownloadReturn("r1", TRUE, TRUE)
    \/ \E req \in inFlight, answer \in {"ok", "error"} :
          TranslateReturn(req, answer, TRUE)

SpecLines == InitLines /\ [][NextLines]_vars

----------------------------------------------------------------------------
(* Specification of the keys of translationCache: a translation is stored  *)
(* for one (sourceLang, targetLang, text) and another one is asked for     *)

ZH == <<"z", "h">>
ZHCN == <<"z", "h", "-", "C", "N">>
CNHi == <<"C", "N", "-">> \o Hi

Triples ==
    [sourceLang : {EN, FR}, targetLang : {CKB, ZH, ZHCN}, text : {Hi, Yo, CNHi}]

\* translationCache.set(cacheKey, translated) of a call for the triple a
KeyStore ==
    /\ translationCache = <<>>
    /\ LET a == convIn.stored IN
       translationCache' =
           CacheSet(translationCache, CacheKeyOf(a.sourceLang, a.targetLang, a.text),
                    "ok", Translated(a.text, "ok"))
    /\ UNCHANGED <<files, requestQueue, activeRequests, inFlight, runs, hist,
                   catalog, faults, convIn, convOut, web>>

\* the cache check of translateTextWithQueue called for the triple b: the
\* cached value is returned, or a request is made
KeyAsk ==
    /\ translationCache # <<>>
    /\ convOut = <<>>
    /\ LET b == convIn.asked
           cacheKey == CacheKeyOf(b.sourceLang, b.targetLang, b.text)
       IN  convOut' = IF cacheKey \in DOMAIN translationCache
                      THEN <<[hit |-> TRUE, value |-> translationCache[cacheKey]]>>
                      ELSE <<[hit |-> FALSE]>>
    /\ UNCHANGED <<pipeVars, convIn, web>>

InitKey ==
    /\ InitPipe
    /\ faults = 0
    /\ catalog = Catalog
    /\ convIn \in [stored : Triples, asked : Triples]
    /\ convOut = <<>>

NextKey == KeyStore \/ KeyAsk

SpecKey == InitKey /\ [][NextKey]_vars

----------------------------------------------------------------------------
(* Specification of the format converter: srtToVtt applied to a document   *)

MaxConvLines == 2

ConvLines ==
    {<<"1">>, <<>>, Hi, TimingLine, Ts1,
     <<"a", "t", " ">> \o Ts1,
     <<"0", "0", ":", "0", "1", ":", "0", "2", ",", "3", "4">>}

RECURSIVE Documents(_)
Documents(n) ==
    IF n = 0 THEN {<<>>}
    ELSE LET shorter == Documents(n - 1)
         IN  shorter \cup {Append(d, l) : d \in shorter, l \in ConvLines}

ConvInputs == {Join(d) : d \in Documents(MaxConvLines) \ {<<>>}}

InitConv ==
    /\ InitPipe
    /\ faults = 0
    /\ catalog = Catalog
    /\ convIn \in ConvInputs
    /\ convOut = <<>>

Convert ==
    /\ convOut = <<>>
    /\ convOut' = srtToVtt(convIn)
    /\ UNCHANGED <<pipeVars, convIn, web>>

NextConv == Convert

SpecConv == InitConv /\ [][NextConv]_vars

----------------------------------------------------------------------------
(* Specification of the track selection: one run for the movie, the        *)
(* provider answering with any list of at most MaxTracks tracks            *)

MaxTracks == 3

Tracks == [language : {EN, FR}, url : {UrlA, UrlB}]

RECURSIVE TrackLists(_)
TrackLists(n) ==
    IF n = 0 THEN {<<>>}
    ELSE LET shorter == TrackLists(n - 1)
         IN  shorter \cup {Append(l, t) : l \in shorter, t \in Tracks}

\* the environment fails at most once
InitTrack ==
    /\ InitPipe
    /\ faults = MaxFaults - 1
    /\ catalog \in {[Catalog EXCEPT !.tracks[MovieKey] = l] : l \in TrackLists(MaxTracks)}
    /\ convIn = <<>>
    /\ convOut = <<>>

NextTrack ==
    \/ Start("r1", MovieKey)
    \/ ResolveReturn("r1", "ok")
    \/ \E answer \in {"ok", "null", "empty"} : SearchReturn("r1", answer)
    \/ SleepReturn("r1")
    \/ DownloadReturn("r1", TRUE, TRUE)
    \/ \E req \in inFlight : TranslateReturn(req, "ok", TRUE)

SpecTrack == InitTrack /\ [][NextTrack]_vars

----------------------------------------------------------------------------
(* Specification of the cache key to path map: vttPath applied to two keys *)

MaxSeason == 2

\* '../tvshows/5/season1/episode2'
UpId ==
    <<".", ".", "/", "t", "v", "s", "h", "o", "w", "s", "/", "5", "/",
      "s", "e", "a", "s", "o", "n", "1", "/",
      "e", "p", "i", "s", "o", "d", "e", "2">>

\* media ids: tmdbId is any string the caller passes
PathIds == {<<"5">>, <<"5", "1">>, <<"5", "/">>, UpId}

PathKeys ==
    {[tmdbId |-> id, type |-> "movie", season |-> Null, episode |-> Null] :
        id \in PathIds}
    \cup {[tmdbId |-> id, type |-> "tv", season |-> String(s), episode |-> String(e)] :
            id \in PathIds, s \in 1..MaxSeason, e \in 1..MaxSeason}

InitPath ==
    /\ InitPipe
    /\ faults = 0
    /\ catalog = Catalog
    /\ convIn \in PathKeys \X PathKeys
    /\ convOut = <<>>

ResolvePaths ==
    /\ convOut = <<>>
    /\ convOut' = <<PathOf(convIn[1]), PathOf(convIn[2])>>
    /\ UNCHANGED <<pipeVars, convIn, web>>

NextPath == ResolvePaths

SpecPath == InitPath /\ [][NextPath]_vars

----------------------------------------------------------------------------
(* The route POST /subtitle/fetch (src/routes/subtitle.js)                  *)

\* values of the fields of req.body
Undefined == [t |-> "undefined"]
NullValue == [t |-> "null"]
NaN == [t |-> "NaN"]
Num(n) == [t |-> "number", n |-> n]
Str(s) == [t |-> "string", s |-> s]

\* truthiness of a value
Truthy(v) ==
    IF v.t = "number" THEN v.n # 0
    ELSE IF v.t = "string" THEN v.s # <<>>
    ELSE FALSE

\* `${v}` and String(v)
Template(v) ==
    IF v.t = "number"
    THEN IF v.n < 0 THEN <<"-">> \o String(-v.n) ELSE String(v.n)
    ELSE IF v.t = "string" THEN v.s
    ELSE IF v.t = "null" THEN Null
    ELSE IF v.t = "NaN" THEN <<"N", "a", "N">>
    ELSE <<"u", "n", "d", "e", "f", "i", "n", "e", "d">>

DigitValue(c) == CHOOSE d \in 0..9 : DigitChars[d + 1] = c

\* the value of the digits of s from position i on, up to the first
\* character that is no digit; acc is the value read so far
RECURSIVE DigitsValue(_, _, _)
DigitsValue(s, i, acc) ==
    IF i > Len(s) \/ s[i] \notin Digits THEN acc
    ELSE DigitsValue(s, i + 1, 10 * acc + DigitValue(s[i]))

\* parseInt(v) in base 10: leading white space is skipped, a sign is read,
\* then the longest run of digits; NaN when there is no digit
parseInt(v) ==
    IF v.t = "number" THEN v
    ELSE IF v.t # "string" THEN NaN
    ELSE LET s == v.s
             blank == {i \in 1..Len(s) : \A j \in 1..i : s[j] \in Space}
             a == Cardinality(blank) + 1
             signed == a <= Len(s) /\ s[a] \in {"+", "-"}
             d == IF signed THEN a + 1 ELSE a
         IN  IF d > Len(s) \/ s[d] \notin Digits THEN NaN
             ELSE IF signed /\ s[a] = "-" THEN Num(-DigitsValue(s, d, 0))
             ELSE Num(DigitsValue(s, d, 0))

\* the arguments the route passes to fetchAndTranslateSubtitle
RouteKey(body) ==
    [tmdbId |-> Template(body.tmdbId),
     type |-> IF body.type = "movie" THEN "movie" ELSE "tv",
     season |-> Template(IF Truthy(body.season) THEN parseInt(body.season)
                         ELSE NullValue),
     episode |-> Template(IF Truthy(body.episode) THEN parseInt(body.episode)
                          ELSE NullValue)]

\* the validation of the route: the request is answered with status 400
Rejected(body) ==
    \/ ~Truthy(body.tmdbId) \/ body.type = ""
    \/ body.type \in {"tv", "anime"}
          /\ (~Truthy(body.season) \/ ~Truthy(body.episode))

SubtitlesPrefix == <<"/", "s", "u", "b", "t", "i", "t", "l", "e", "s", "/">>

subtitleUrl(body) ==
    IF body.type = "movie"
    THEN SubtitlesPrefix \o <<"m", "o", "v", "i", "e", "s", "/">>
         \o Template(body.tmdbId)
         \o <<"/", "k", "u", "r", "d", "i", "s", "h", ".", "v", "t", "t">>
    ELSE SubtitlesPrefix \o <<"t", "v", "s", "h", "o", "w", "s", "/">>
         \o Template(body.tmdbId)
         \o <<"/", "s", "e", "a", "s", "o", "n">> \o Template(body.season)
         \o <<"/", "e", "p", "i", "s", "o", "d", "e">> \o Template(body.episode)
         \o <<"/", "k", "u", "r", "d", "i", "s", "h", ".", "v", "t", "t">>

ErrMissing == "Missing required parameters"
ErrSeason == "Season and episode required for TV shows"
ErrNotFound == "Subtitle not found"
ErrServer == "Server error while fetching subtitle"

\* the handler up to `await fetchAndTranslateSubtitle(...)`: the request is
\* convIn, the response is convOut, the call is run r1
RouteFetch ==
    /\ convOut = <<>>
    /\ runs["r1"].pc = "idle"
    /\ IF ~Truthy(convIn.tmdbId) \/ convIn.type = ""
       THEN /\ convOut' = <<[status |-> 400, error |-> ErrMissing]>>
            /\ UNCHANGED <<pipeVars, convIn, web>>
       ELSE IF /\ convIn.type \in {"tv", "anime"}
               /\ (~Truthy(convIn.season) \/ ~Truthy(convIn.episode))
       THEN /\ convOut' = <<[status |-> 400, error |-> ErrSeason]>>
            /\ UNCHANGED <<pipeVars, convIn, web>>
       ELSE Start("r1", RouteKey(convIn))

\* mutant: the response says fromCache: false whatever the result says
RouteReturnFresh ==
    /\ convOut = <<>>
    /\ runs["r1"].pc \in {"done", "threw"}
    /\ LET result == runs["r1"].result IN
       convOut' =
          IF runs["r1"].pc = "threw"
          THEN <<[status |-> 500, success |-> FALSE, error |-> ErrServer]>>
          ELSE IF ~result.success
          THEN <<[status |-> 404, success |-> FALSE,
                  error |-> IF result.error # "" THEN result.error ELSE ErrNotFound]>>
          ELSE <<[status |-> 200, success |-> TRUE,
                  subtitleUrl |-> subtitleUrl(convIn),
                  fromCache |-> FALSE]>>
    /\ UNCHANGED <<pipeVars, convIn, web>>

\* the handler after the await: the call has returned, or it has raised
\* and the catch block of the handler answers
RouteReturn ==
    /\ convOut = <<>>
    /\ runs["r1"].pc \in {"done", "threw"}
    /\ LET result == runs["r1"].result IN
       convOut' =
          IF runs["r1"].pc = "threw"
          THEN <<[status |-> 500, success |-> FALSE, error |-> ErrServer]>>
          ELSE IF ~result.success
          THEN <<[status |-> 404, success |-> FALSE,
                  error |-> IF result.error # "" THEN result.error ELSE ErrNotFound]>>
          ELSE <<[status |-> 200, success |-> TRUE,
                  subtitleUrl |-> subtitleUrl(convIn),
                  fromCache |-> result.fromCache]>>
    /\ UNCHANGED <<pipeVars, convIn, web>>

----------------------------------------------------------------------------
(* Specification of the route: one request, any body over the values below *)

\* season and episode: absent, a number, or a string
SeasonValues ==
    {Undefined, Num(1), Num(2), Str(<<"1">>), Str(<<"2">>), Str(<<"0", "1">>)}

Bodies ==
    [tmdbId : {Undefined, Str(<<"5">>)},
     type : {"", "movie", "tv", "anime", "series"},
     season : SeasonValues,
     episode : SeasonValues]

RouteKeys == {RouteKey(body) : body \in {b \in Bodies : ~Rejected(b)}}

RoutePaths == {PathOf(k) : k \in RouteKeys}

RouteCatalog ==
    [imdb |-> [k \in RouteKeys |-> ImdbId],
     tracks |-> [k \in RouteKeys |-> <<[language |-> EN, url |-> UrlB]>>],
     body |-> (UrlA :> DocA) @@ (UrlB :> DocB)]

\* no artifact exists, or an earlier request has left the artifacts
InitRoute ==
    /\ \E cached \in BOOLEAN :
          files = [p \in RoutePaths |-> IF cached THEN srtToVtt(DocB) ELSE NoFile]
    /\ web = NoWeb
    /\ translationCache = <<>>
    /\ requestQueue = <<>>
    /\ activeRequests = 0
    /\ inFlight = {}
    /\ runs = [r \in Runs |-> IdleRun]
    /\ hist = [r \in Runs |-> NoHist]
    /\ faults = 0
    /\ catalog = RouteCatalog
    /\ convIn \in Bodies
    /\ convOut = <<>>

NextRoute ==
    \/ RouteFetch
    \/ ResolveReturn("r1", "ok")
    \/ \E answer \in {"ok", "empty"} : SearchReturn("r1", answer)
    \/ SleepReturn("r1")
    \/ DownloadReturn("r1", TRUE, TRUE)
    \/ \E req \in inFlight : TranslateReturn(req, "ok", TRUE)
    \/ RouteReturn

SpecRoute == InitRoute /\ [][NextRoute]_vars

----------------------------------------------------------------------------
(* Specification of getSubtitlePath next to the runs of the pipeline       *)

\* mutant: the folder of a movie is used for every type
getSubtitlePathMovies(fs, k) ==
    LET p == vttPath(k.tmdbId, "movie", k.season, k.episode) IN
    IF existsSync(fs, p) THEN <<p>> ELSE <<>>

\* getSubtitlePath(tmdbId, type, season, episode): <<vttPath>>, or <<>> for null
getSubtitlePath(fs, k) ==
    LET p == vttPath(k.tmdbId, k.type, k.season, k.episode) IN
    IF existsSync(fs, p) THEN <<p>> ELSE <<>>

\* a call of getSubtitlePath: the arguments are convIn, the result is convOut
GetSubtitlePath(k) ==
    /\ convIn' = k
    /\ convOut' = <<getSubtitlePath(files, k)>>
    /\ <<convIn', convOut'>> # <<convIn, convOut>>
    /\ UNCHANGED <<pipeVars, web>>

\* the environment fails at most once
InitLookup ==
    /\ InitPipe
    /\ faults = MaxFaults - 1
    /\ catalog = Catalog
    /\ convIn = <<>>
    /\ convOut = <<>>

NextLookup ==
    \/ \E r \in Runs, k \in Keys : Start(r, k)
    \/ \E r \in Runs : ResolveReturn(r, "ok")
    \/ \E r \in Runs : SearchReturn(r, "ok")
    \/ \E r \in Runs : SleepReturn(r)
    \/ \E r \in Runs, writeOk \in BOOLEAN : DownloadReturn(r, TRUE, writeOk)
    \/ \E req \in inFlight, writeOk \in BOOLEAN : TranslateReturn(req, "ok", writeOk)
    \/ \E k \in Keys : GetSubtitlePath(k)

SpecLookup == InitLookup /\ [][NextLookup]_vars

----------------------------------------------------------------------------
(* Password reset: POST /forgot-password and POST /recover                 *)
(* (src/routes/auth.js, resetTokens of src/app.js)                         *)

\* the age in ms above which a reset token is refused
ResetTtl == 300000

\* the clock advances in steps of half the life of a token
MaxTicks == 3
TickMs == ResetTtl \div 2

Accounts == {"u1", "u2"}
Tokens == {"t1", "t2"}
Passwords == {"p1", "p2"}
Reqs == {"q1", "q2"}

\* bcrypt.hash(password, 10)
Hashed(password) == <<"$2b$10$", password>>

IdleReq == [pc |-> "idle"]

\* resetTokens[token] = {...tokenData, timestamp: Date.now()}
storeResetToken(resetTokens, token, tokenData, now) ==
    (token :> [userId |-> tokenData.userId, email |-> tokenData.email,
               timestamp |-> now])
        @@ resetTokens

\* delete resetTokens[token]
removeResetToken(resetTokens, token) ==
    [t \in DOMAIN resetTokens \ {token} |-> resetTokens[t]]

\* Date.now() moves on
Tick ==
    /\ web.now < MaxTicks * TickMs
    /\ web' = [web EXCEPT !.now = @ + TickMs]
    /\ UNCHANGED <<pipeVars, convIn, convOut>>

\* POST /forgot-password for the e-mail of an account: a new random token is
\* stored for the account
ForgotPassword(u, token) ==
    /\ token \notin web.issued
    /\ web' = [web EXCEPT
                 !.resetTokens = storeResetToken(@, token,
                                    [userId |-> u, email |-> u], web.now),
                 !.issued = @ \cup {token}]
    /\ UNCHANGED <<pipeVars, convIn, convOut>>

\* POST /recover up to `await bcrypt.hash`; token "" is a body without token
RecoverPost(q, token, password) ==
    /\ web.reqs[q].pc = "idle"
    /\ LET known == token \in DOMAIN web.resetTokens
           age == web.now - web.resetTokens[token].timestamp
       IN  IF token = ""
           THEN web' = [web EXCEPT !.reqs[q] = [pc |-> "done", token |-> token,
                                                response |-> "redirect"]]
           ELSE IF ~known
           THEN web' = [web EXCEPT !.reqs[q] = [pc |-> "done", token |-> token,
                                                response |-> "expired"]]
           ELSE IF age > ResetTtl
           THEN web' = [web EXCEPT
                          !.resetTokens = removeResetToken(@, token),
                          !.reqs[q] = [pc |-> "done", token |-> token,
                                       response |-> "expired"]]
           ELSE web' = [web EXCEPT
                          !.reqs[q] = [pc |-> "hash", token |-> token,
                                       password |-> password,
                                       userId |-> web.resetTokens[token].userId,
                                       age |-> age]]
    /\ UNCHANGED <<pipeVars, convIn, convOut>>

\* bcrypt.hash returns and User.findByIdAndUpdate is called, or it throws
HashReturn(q, ok) ==
    /\ web.reqs[q].pc = "hash"
    /\ web' = IF ok
              THEN [web EXCEPT !.reqs[q].pc = "update",
                               !.reqs[q].password = Hashed(@)]
              ELSE [web EXCEPT !.reqs[q] = [pc |-> "done", token |-> @.token,
                                            response |-> "error"]]
    /\ UNCHANGED <<pipeVars, convIn, convOut>>

\* User.findByIdAndUpdate returns: the password is stored, the token is
\* removed and the login page is rendered; or it throws
UpdateReturn(q, ok) ==
    /\ web.reqs[q].pc = "update"
    /\ LET req == web.reqs[q] IN
       web' = IF ok
              THEN [web EXCEPT
                      !.users[req.userId].password = req.password,
                      !.updates[req.token] = @ + 1,
                      !.resetTokens = removeResetToken(@, req.token),
                      !.reqs[q] = [pc |-> "done", token |-> req.token,
                                   response |-> "login"]]
              ELSE [web EXCEPT !.reqs[q] = [pc |-> "done", token |-> req.token,
                                            response |-> "error"]]
    /\ UNCHANGED <<pipeVars, convIn, convOut>>

\* the subtitle pipeline is not used by the other routes
InitRest ==
    /\ InitStore
    /\ faults = 0
    /\ catalog = Catalog
    /\ convIn = <<>>
    /\ convOut = <<>>

InitReset ==
    /\ InitRest
    /\ web = [now |-> 0,
              resetTokens |-> <<>>,
              issued |-> {},
              users |-> [u \in Accounts |-> [password |-> Hashed("p0")]],
              updates |-> [t \in Tokens |-> 0],
              reqs |-> [q \in Reqs |-> IdleReq]]

NextReset ==
    \/ Tick
    \/ \E u \in Accounts, token \in Tokens : ForgotPassword(u, token)
    \/ \E q \in Reqs, token \in Tokens \cup {""}, password \in Passwords :
          RecoverPost(q, token, password)
    \/ \E q \in Reqs, ok \in BOOLEAN : HashReturn(q, ok)
    \/ \E q \in Reqs, ok \in BOOLEAN : UpdateReturn(q, ok)

SpecReset == InitReset /\ [][NextReset]_vars

----------------------------------------------------------------------------
(* E-mail verification: POST /register and POST /verify                    *)
(* (src/routes/auth.js, src/utils/tempUsers.js)                            *)

\* the age in ms above which a pending registration is refused
VerifyTtl == 60000

Usernames == {"ann", "bob"}
VerifyTokens == {"v1", "v2"}

\* verification codes as they are mailed, and as a user may type them
Codes == {<<"A", "1">>, <<"B", "2">>}
Typed == Codes \cup {<<"a", "1">>}

UpperOf(c) == IF c = "a" THEN "A" ELSE IF c = "b" THEN "B" ELSE c

\* String.prototype.toUpperCase
toUpperCase(s) == [i \in 1..Len(s) |-> UpperOf(s[i])]

\* tempUsers[token] = {...userData, timestamp: Date.now()}
storeTempUser(tempUsers, token, userData, now) ==
    (token :> [username |-> userData.username, email |-> userData.email,
               password |-> userData.password,
               verificationCode |-> userData.verificationCode,
               timestamp |-> now])
        @@ tempUsers

\* delete tempUsers[token]
removeTempUser(tempUsers, token) ==
    [t \in DOMAIN tempUsers \ {token} |-> tempUsers[t]]

\* mutant: the code is not compared
codeMatchesAny(tempUser, code) == TRUE

\* tempUser.verificationCode !== code.toUpperCase(), negated
codeMatches(tempUser, code) == tempUser.verificationCode = toUpperCase(code)

\* the unique indexes of the user collection: username and email
Duplicate(accounts, user) ==
    \E a \in accounts : a.username = user.username \/ a.email = user.email

\* Date.now() moves on, in steps of half the life of a registration
VerifyTick ==
    /\ web.now < MaxTicks * (VerifyTtl \div 2)
    /\ web' = [web EXCEPT !.now = @ + VerifyTtl \div 2]
    /\ UNCHANGED <<pipeVars, convIn, convOut>>

\* POST /register of a Gmail address: an existing account is answered 409,
\* else the registration is stored under a new random token with a random code
Register(username, token, verificationCode) ==
    /\ token \notin web.issued
    /\ ~\E a \in web.accounts : a.username = username \/ a.email = username
    /\ web' = [web EXCEPT
                 !.tempUsers = storeTempUser(@, token,
                                  [username |-> username, email |-> username,
                                   password |-> Hashed("p1"),
                                   verificationCode |-> verificationCode],
                                  web.now),
                 !.issued = @ \cup {token}]
    /\ UNCHANGED <<pipeVars, convIn, convOut>>

\* POST /verify up to `await user.save()`
VerifyPost(q, token, code) ==
    /\ web.reqs[q].pc = "idle"
    /\ LET known == token \in DOMAIN web.tempUsers
           tempUser == web.tempUsers[token]
           age == web.now - tempUser.timestamp
           answered(response) == [pc |-> "done", token |-> token, code |-> code,
                                  response |-> response]
       IN  IF ~known
           THEN web' = [web EXCEPT !.reqs[q] = answered("expired")]
           ELSE IF age > VerifyTtl
           THEN web' = [web EXCEPT !.tempUsers = removeTempUser(@, token),
                                   !.reqs[q] = answered("expired")]
           ELSE IF ~codeMatches(tempUser, code)
           THEN web' = [web EXCEPT !.reqs[q] = answered("invalid")]
           ELSE web' = [web EXCEPT
                          !.reqs[q] = [pc |-> "save", token |-> token, code |-> code,
                                       age |-> age,
                                       expected |-> tempUser.verificationCode,
                                       user |-> [username |-> tempUser.username,
                                                 email |-> tempUser.email,
                                                 password |-> tempUser.password,
                                                 isVerified |-> TRUE]]]
    /\ UNCHANGED <<pipeVars, convIn, convOut>>

\* user.save() returns: the account exists, the registration is removed and
\* the session is set; or it throws (a duplicate key, or another error)
SaveReturn(q, ok) ==
    /\ web.reqs[q].pc = "save"
    /\ LET req == web.reqs[q] IN
       /\ ok => ~Duplicate(web.accounts, req.user)
       /\ web' = IF ok
                 THEN [web EXCEPT
                         !.accounts = @ \cup {req.user},
                         !.created[req.token] = @ + 1,
                         !.tempUsers = removeTempUser(@, req.token),
                         !.reqs[q] = [pc |-> "done", token |-> req.token,
                                      code |-> req.code, response |-> "redirect"]]
                 ELSE [web EXCEPT
                         !.reqs[q] = [pc |-> "done", token |-> req.token,
                                      code |-> req.code, response |-> "error"]]
    /\ UNCHANGED <<pipeVars, convIn, convOut>>

InitVerify ==
    /\ InitRest
    /\ web = [now |-> 0,
              tempUsers |-> <<>>,
              issued |-> {},
              accounts |-> {},
              created |-> [t \in VerifyTokens |-> 0],
              reqs |-> [q \in Reqs |-> IdleReq]]

NextVerify ==
    \/ VerifyTick
    \/ \E username \in Usernames, token \in VerifyTokens, code \in Codes :
          Register(username, token, code)
    \/ \E q \in Reqs, token \in VerifyTokens, code \in Typed : VerifyPost(q, token, code)
    \/ \E q \in Reqs, ok \in BOOLEAN : SaveReturn(q, ok)

SpecVerify == InitVerify /\ [][NextVerify]_vars

----------------------------------------------------------------------------
(* Comments: POST /api/comments/add and DELETE /api/comments/delete        *)
(* (src/routes/api.js, the comment schema)                                 *)

\* the tmdbId values of the titles commented on
Titles == {"m1", "m2"}

\* the number of comment documents ever created
MaxComments == 3

\* req.session.user of a request; NoUser is a request without a session user
NoUser == "none"
Sessions == Accounts \cup {NoUser}

\* Comment.findOne({ tmdb_id: tmdbId, user_id: userId }) finds a document
findOne(comments, tmdbId, userId) ==
    \E c \in comments : c.tmdb_id = tmdbId /\ c.user_id = userId

\* Comment.findOneAndDelete({ _id: commentId, user_id: userId }): the
\* documents that it deletes (at most one, ids are unique)
findOneAndDelete(comments, commentId, userId) ==
    {c \in comments : c._id = commentId /\ c.user_id = userId}

\* a handler may begin on a connection that is not inside a handler
Free(q) == web.reqs[q].pc \in {"idle", "done"}

\* POST /api/comments/add up to `await Comment.findOne`
AddPost(q, user, tmdbId) ==
    /\ Free(q)
    /\ web' = IF user = NoUser
              THEN [web EXCEPT !.reqs[q] = [pc |-> "done", op |-> "add",
                                            user |-> user, tmdbId |-> tmdbId,
                                            status |-> 401]]
              ELSE [web EXCEPT !.reqs[q] = [pc |-> "find", op |-> "add",
                                            user |-> user, tmdbId |-> tmdbId]]
    /\ UNCHANGED <<pipeVars, convIn, convOut>>

\* Comment.findOne returns: an existing comment is answered 409, else the
\* new comment is built and `await newComment.save()` begins; or it throws
FindReturn(q, ok) ==
    /\ web.reqs[q].pc = "find"
    /\ LET req == web.reqs[q]
           existing == findOne(web.comments, req.tmdbId, req.user)
       IN  web' = IF ~ok
                  THEN [web EXCEPT !.reqs[q] = [pc |-> "done", op |-> "add",
                                                user |-> req.user,
                                                tmdbId |-> req.tmdbId,
                                                status |-> 500]]
                  ELSE IF existing
                  THEN [web EXCEPT !.reqs[q] = [pc |-> "done", op |-> "add",
                                                user |-> req.user,
                                                tmdbId |-> req.tmdbId,
                                                status |-> 409]]
                  ELSE [web EXCEPT !.reqs[q].pc = "save"]
    /\ UNCHANGED <<pipeVars, convIn, convOut>>

\* newComment.save() returns: the document is in the collection (the schema
\* declares no unique index, so nothing is refused); or it throws
CommentSaveReturn(q, ok) ==
    /\ web.reqs[q].pc = "save"
    /\ ok => web.nextId <= MaxComments
    /\ LET req == web.reqs[q] IN
       web' = IF ok
              THEN [web EXCEPT
                      !.comments = @ \cup {[_id |-> web.nextId,
                                            user_id |-> req.user,
                                            tmdb_id |-> req.tmdbId]},
                      !.nextId = @ + 1,
                      !.reqs[q] = [pc |-> "done", op |-> "add",
                                   user |-> req.user, tmdbId |-> req.tmdbId,
                                   status |-> 200]]
              ELSE [web EXCEPT !.reqs[q] = [pc |-> "done", op |-> "add",
                                            user |-> req.user,
                                            tmdbId |-> req.tmdbId,
                                            status |-> 500]]
    /\ UNCHANGED <<pipeVars, convIn, convOut>>

\* DELETE /api/comments/delete/:commentId up to `await findOneAndDelete`
DeletePost(q, user, commentId) ==
    /\ Free(q)
    /\ web' = IF user = NoUser
              THEN [web EXCEPT !.reqs[q] = [pc |-> "done", op |-> "delete",
                                            user |-> user,
                                            commentId |-> commentId,
                                            status |-> 401]]
              ELSE [web EXCEPT !.reqs[q] = [pc |-> "delete", op |-> "delete",
                                            user |-> user,
                                            commentId |-> commentId]]
    /\ UNCHANGED <<pipeVars, convIn, convOut>>

\* Comment.findOneAndDelete returns: the user's comment is gone, or there was
\* none (404); or it throws
DeleteReturn(q, ok) ==
    /\ web.reqs[q].pc = "delete"
    /\ LET req == web.reqs[q]
           deleted == findOneAndDelete(web.comments, req.commentId, req.user)
           answered(status) == [pc |-> "done", op |-> "delete",
                                user |-> req.user, commentId |-> req.commentId,
                                status |-> status]
       IN  web' = IF ~ok
                  THEN [web EXCEPT !.reqs[q] = answered(500)]
                  ELSE IF deleted = {}
                  THEN [web EXCEPT !.reqs[q] = answered(404)]
                  ELSE [web EXCEPT !.comments = @ \ deleted,
                                   !.reqs[q] = answered(200)]
    /\ UNCHANGED <<pipeVars, convIn, convOut>>

InitComments ==
    /\ InitRest
    /\ web = [now |-> 0,
              comments |-> {},
              nextId |-> 1,
              reqs |-> [q \in Reqs |-> IdleReq]]

NextComments ==
    \/ \E q \in Reqs, user \in Sessions, tmdbId \in Titles :
          AddPost(q, user, tmdbId)
    \/ \E q \in Reqs, ok \in BOOLEAN : FindReturn(q, ok)
    \/ \E q \in Reqs, ok \in BOOLEAN : CommentSaveReturn(q, ok)
    \/ \E q \in Reqs, user \in Sessions, commentId \in 1..MaxComments :
          DeletePost(q, user, commentId)
    \/ \E q \in Reqs, ok \in BOOLEAN : DeleteReturn(q, ok)

SpecComments == InitComments /\ [][NextComments]_vars

----------------------------------------------------------------------------
(* Home page: getCached and fetchTMDB (the main routes)                    *)

\* the age in ms from which a cache entry is fetched again
CACHE_TTL == 300000

\* the default of the parameter `retries` of fetchTMDB
fetchRetries == 3

\* the keys of `cache`
CacheKeys == {"trending", "popular"}

\* data: null
NoData == [key |-> "", started |-> -1]

\* the object that the catalog service sends to a fetch: it is told apart by
\* the key and the time of the call of getCached that asked for it
DataOf(key, started) == [key |-> key, started |-> started]

\* the HTTP statuses of the catalog service
Statuses == {200, 429, 500}

\* what response.json() makes of the body: an object, null, or a SyntaxError
BodyKinds == {"json", "null", "bad"}

\* a caller that is not inside getCached
IdleCall ==
    [pc |-> "idle", key |-> "", started |-> 0, retries |-> 0,
     requests |-> 0, status |-> 0, outcome |-> "", data |-> NoData]

\* mutant: an entry that is exactly CACHE_TTL old is served
FreshInclusive(entry, now) ==
    entry.data # NoData /\ now - entry.timestamp <= CACHE_TTL

\* cache[key].data && now - cache[key].timestamp < CACHE_TTL
Fresh(entry, now) ==
    entry.data # NoData /\ now - entry.timestamp < CACHE_TTL

\* response.ok
IsOk(status) == status >= 200 /\ status <= 299

\* mutant: one more retry
shouldRetryOffByOne(status, retriesLeft) == status = 429 /\ retriesLeft >= 0

\* response.status === 429 && retries > 0
shouldRetry(status, retriesLeft) == status = 429 /\ retriesLeft > 0

\* getCached(key, fetcher) up to `await fetch(url)` of the fetcher: a fresh
\* entry is returned, else fetchTMDB sends its first request
GetCached(c, key) ==
    /\ Free(c)
    /\ LET entry == web.cache[key] IN
       IF Fresh(entry, web.now)
       THEN web' = [web EXCEPT
                      !.reqs[c] = [IdleCall EXCEPT !.pc = "done", !.key = key,
                                                   !.outcome = "cached",
                                                   !.data = entry.data]]
       ELSE web' = [web EXCEPT
                      !.reqs[c] = [IdleCall EXCEPT !.pc = "http", !.key = key,
                                                   !.started = web.now,
                                                   !.retries = fetchRetries,
                                                   !.requests = 1]]
    /\ UNCHANGED <<pipeVars, convIn, convOut>>

\* the call has returned: its locals are gone, its answer stays
CallDone(req, status, outcome, data) ==
    [IdleCall EXCEPT !.pc = "done", !.key = req.key, !.status = status,
                     !.outcome = outcome, !.data = data]

\* `await fetch(url)` returns with a status: the body is parsed and stored in
\* the cache with the time at which getCached was called; or the timer of a
\* retry is set; or fetchTMDB throws and the promise of getCached is rejected
HttpReturn(c, status, body) ==
    /\ web.reqs[c].pc = "http"
    /\ LET req == web.reqs[c]
           data == IF body = "json" THEN DataOf(req.key, req.started)
                                     ELSE NoData
       IN  web' = IF IsOk(status) /\ body # "bad"
                  THEN [web EXCEPT
                          !.cache[req.key] = [data |-> data,
                                              timestamp |-> req.started],
                          !.reqs[c] = CallDone(req, status, "fetched", data)]
                  ELSE IF ~IsOk(status) /\ shouldRetry(status, req.retries)
                  THEN [web EXCEPT !.reqs[c].pc = "wait",
                                   !.reqs[c].status = status]
                  ELSE [web EXCEPT
                          !.reqs[c] = CallDone(req, status, "error", NoData)]
    /\ UNCHANGED <<pipeVars, convIn, convOut>>

\* the timer of 1000 ms fires (less than a step of the clock) and
\* fetchTMDB(endpoint, retries - 1) sends its request
TimerFires(c) ==
    /\ web.reqs[c].pc = "wait"
    /\ web' = [web EXCEPT !.reqs[c].pc = "http",
                          !.reqs[c].retries = @ - 1,
                          !.reqs[c].requests = @ + 1]
    /\ UNCHANGED <<pipeVars, convIn, convOut>>

InitHome ==
    /\ InitRest
    /\ web = [now |-> 0,
              cache |-> [k \in CacheKeys |-> [data |-> NoData, timestamp |-> 0]],
              reqs |-> [c \in Reqs |-> IdleCall]]

NextHome ==
    \/ Tick
    \/ \E c \in Reqs, key \in CacheKeys : GetCached(c, key)
    \/ \E c \in Reqs, status \in Statuses, body \in BodyKinds :
          HttpReturn(c, status, body)
    \/ \E c \in Reqs : TimerFires(c)

SpecHome == InitHome /\ [][NextHome]_vars

\* calls of fetchTMDB alone: one key, the clock stands still
NextFetch ==
    \/ \E c \in Reqs : GetCached(c, "trending")
    \/ \E c \in Reqs, status \in Statuses, body \in BodyKinds :
          HttpReturn(c, status, body)
    \/ \E c \in Reqs : TimerFires(c)

\* every HTTP request returns and every timer fires
SpecFetch ==
    /\ InitHome
    /\ [][NextFetch]_vars
    /\ \A c \in Reqs :
          /\ WF_vars(\E status \in Statuses, body \in BodyKinds :
                        HttpReturn(c, status, body))
          /\ WF_vars(TimerFires(c))

----------------------------------------------------------------------------
(* Properties *)

Done(r) == runs[r].pc = "done"
Result(r) == runs[r].result
\* the run went past the cache check and the resolver
Searched(r) == hist[r].searchCalls > 0

AllStages == <<"search", "download", "translate", "convert", "write">>

\* C1: a call for a key for which an earlier call has returned success
\* returns at once with success and fromCache, has called neither the
\* resolver, the search, the download nor the translation service, and has
\* written nothing.
C1_Idempotence ==
    \A r \in Runs :
        hist[r].priorOk =>
            /\ Done(r)
            /\ Result(r) = CacheHit(PathOf(runs[r].key))
            /\ hist[r].resolveCalls = 0
            /\ hist[r].searchCalls = 0
            /\ hist[r].downloadCalls = 0
            /\ hist[r].calls = <<>>
            /\ hist[r].writes = 0
            /\ hist[r].writeFails = 0

C1_Witness ==
    \E r \in Runs, o \in Runs :
        /\ o # r
        /\ hist[r].priorOk
        /\ runs[o].key = runs[r].key
        /\ hist[o].writes = 1

\* C2: at most MAX_CONCURRENT_REQUESTS translation calls are in flight.
C2_ConcurrencyBound == Cardinality(inFlight) <= MAX_CONCURRENT_REQUESTS

C2_Witness ==
    /\ Cardinality(inFlight) = MAX_CONCURRENT_REQUESTS
    /\ Len(requestQueue) > 0

\* C3 (as claimed): over all attempts of a run, the translation service is
\* called at most once for each distinct line.
C3_OncePerRun ==
    \A r \in Runs :
        \A i, j \in DOMAIN hist[r].calls :
            hist[r].calls[i] = hist[r].calls[j] => i = j

\* a run in which search and download never failed and no translation call
\* returned OK
AllCallsFailed(r) ==
    /\ Done(r)
    /\ Searched(r)
    /\ hist[r].searchFails = 0
    /\ hist[r].downloadFails = 0
    /\ hist[r].okCalls = 0

C5_ExhaustionAsClaimed ==
    \A r \in Runs :
        (Done(r) /\ hist[r].searchFails = retries) =>
            /\ ~Result(r).success
            /\ hist[r].searchCalls = retries
            /\ ~hist[r].endExists

\* C5 (amended): a run all of whose searches failed returns failure after
\* exactly 3 failed searches and has written nothing; an artifact exists at
\* its path when it returns only if another run for the same key wrote it.
C5_Exhaustion ==
    \A r \in Runs :
        (Done(r) /\ Searched(r) /\ hist[r].downloadCalls = 0) =>
            /\ ~Result(r).success
            /\ hist[r].searchFails = retries
            /\ hist[r].searchCalls = retries
            /\ hist[r].writes = 0
            /\ hist[r].endExists =>
                  \E o \in Runs \ {r} :
                      runs[o].key = runs[r].key /\ hist[o].writes > 0

C5_Witness ==
    \E r \in Runs :
        Done(r) /\ hist[r].searchFails = retries /\ hist[r].endExists

\* the conversion the claim describes: the timestamps of the timing lines
\* (the lines with an arrow) are rewritten, every other line is kept
ConvertTimingLines(content) ==
    LET ls == Split(content) IN
    VttHeader \o Join([i \in 1..Len(ls) |->
                         IF IncludesArrow(ls[i]) THEN ReplaceTimestamps(ls[i])
                         ELSE ls[i]])

\* C6 (as claimed): srtToVtt rewrites the timestamps of timing lines only.
C6_TimingLinesOnly == convOut # <<>> => convOut = ConvertTimingLines(convIn)

\* C7: the output of translateSubtitle has the lines of the input, each
\* cue-index, timing and blank line unchanged at its position and each other
\* line replaced by what the request for that very line resolved with.
C7_LineOrder ==
    \A r \in Runs :
        "translate" \in Range(hist[r].stages) =>
            LET in == Split(runs[r].srtContent)
                out == Split(hist[r].output)
            IN  /\ Len(out) = Len(in)
                /\ \A i \in 1..Len(in) :
                      IF Translatable(in[i])
                      THEN /\ in[i] \in DOMAIN hist[r].resolved
                           /\ out[i] = hist[r].resolved[in[i]]
                      ELSE out[i] = in[i]

C7_Witness ==
    \E r \in Runs :
        /\ "translate" \in Range(hist[r].stages)
        /\ hist[r].overtaken
        /\ Len(runs[r].uniqueLines) = 2
        /\ \A l \in Range(runs[r].uniqueLines) : hist[r].resolved[l] # l

\* C8 (as claimed): at most one translation call is outstanding for a
\* translation cache key.
C8_Coalescing ==
    \A a, b \in inFlight : a.cacheKey = b.cacheKey => a = b

C10_PersistenceFailure ==
    \A r \in Runs :
        /\ (Done(r) /\ Result(r).success /\ ~Result(r).fromCache) =>
              /\ hist[r].writes = 1
              /\ "write" \in Range(hist[r].stages)
              /\ existsSync(files, PathOf(runs[r].key))
        /\ (Done(r) /\ hist[r].writeFails = retries) =>
              /\ ~Result(r).success
              /\ Result(r).error = ErrWrite

C10_Witness ==
    \E r \in Runs : Done(r) /\ hist[r].writeFails = retries

\* C11 (as claimed): no call of fetchAndTranslateSubtitle ends with an
\* exception raised to its caller; every failure is a returned result.
C11_NeverRaises ==
    \A r \in Runs : runs[r].pc # "threw"

\* the search criteria by TMDb id and by IMDb id, for a movie and an episode
ByTmdbId(k) ==
    IF k.type = "movie"
    THEN [tmdb_id |-> k.tmdbId, format |-> "srt"]
    ELSE [tmdb_id |-> k.tmdbId, season |-> k.season, episode |-> k.episode,
          format |-> "srt"]

ByImdbId(id, k) ==
    IF k.type = "movie"
    THEN [imdb_id |-> id, format |-> "srt"]
    ELSE [imdb_id |-> id, season |-> k.season, episode |-> k.episode,
          format |-> "srt"]

\* C12: fetchImdbId never raises (a call that raised has not reached the
\* resolver); a run whose resolver returned null (network error, non-OK
\* status, no imdb_id) goes on to search by tmdb_id, a run whose resolver
\* returned an id searches by that imdb_id; and a run returns failure only
\* after 3 failed attempts, none of which the resolver accounts for.
C12_SoftResolver ==
    \A r \in Runs :
        /\ runs[r].pc = "threw" => hist[r].resolveCalls = 0
        /\ runs[r].imdbId # <<>> => runs[r].imdbId = catalog.imdb[runs[r].key]
        /\ Searched(r) =>
              hist[r].criteria =
                 {IF runs[r].imdbId = <<>> THEN ByTmdbId(runs[r].key)
                  ELSE ByImdbId(runs[r].imdbId, runs[r].key)}
        /\ (Done(r) /\ ~Result(r).success) =>
              hist[r].searchFails + hist[r].downloadFails + hist[r].writeFails
                 = retries

\* the resolver of a run for the movie, which has an IMDb id, failed, and the
\* run searched by tmdb_id and produced the artifact
C12_Witness ==
    \E r \in Runs :
        /\ runs[r].key = MovieKey
        /\ catalog.imdb[MovieKey] # <<>>
        /\ runs[r].imdbId = <<>>
        /\ Done(r)
        /\ Result(r) = Produced(PathOf(MovieKey))
        /\ hist[r].criteria = {ByTmdbId(MovieKey)}

\* the call has returned a result or raised an exception
Terminated(r) == runs[r].pc \in {"done", "threw"}

ErrorMessages == {ErrNoSubtitles, ErrProvider, ErrDownload, ErrWrite, ErrGeneric}

\* C13 (as claimed): a call that has ended has returned exactly one of
\* CacheHit, Produced and Failed; it made at most 3 attempts and waited at
\* most twice, once after each failed attempt but the last; and an attempt
\* that wrote the artifact ended the run as Produced.
C13_BoundedRetry ==
    \A r \in Runs :
        /\ Terminated(r) =>
              /\ Done(r)
              /\ Result(r) \in {CacheHit(PathOf(runs[r].key)),
                                Produced(PathOf(runs[r].key))}
                               \cup {Failed(msg) : msg \in ErrorMessages}
        /\ runs[r].attempts <= retries
        /\ hist[r].searchCalls <= retries
        /\ hist[r].sleeps <= retries - 1
        /\ hist[r].sleeps =
              IF Done(r) /\ ~Result(r).success
              THEN runs[r].attempts - 1
              ELSE runs[r].attempts
        /\ hist[r].writes > 0 =>
              /\ Done(r)
              /\ Result(r) = Produced(PathOf(runs[r].key))
              /\ hist[r].searchCalls = runs[r].attempts + 1

\* C14 (as claimed): an artifact that exists is never removed and its
\* content never changes, whatever the interleaving of the runs.
C14_ArtifactImmutable ==
    [][\A p \in DOMAIN files : files[p] # NoFile => files'[p] = files[p]]_vars

\* the call was made and was not answered from the cache
NotFromCache(r) == runs[r].pc # "idle" /\ ~(Done(r) /\ Result(r).fromCache)

\* C15 (as claimed): a run that is not served from the cache calls the
\* resolver exactly once, before its first search, and all its searches use
\* the same criteria.
C15_ResolveOnce ==
    \A r \in Runs :
        /\ NotFromCache(r) => hist[r].resolveCalls = 1
        /\ runs[r].pc = "resolve" => hist[r].searchCalls = 0
        /\ Searched(r) => Cardinality(hist[r].criteria) = 1

\* the number of times the run has entered translateSubtitle: once after
\* each download that returned
Translations(r) ==
    hist[r].downloadCalls - hist[r].downloadFails
        - (IF runs[r].pc = "download" THEN 1 ELSE 0)

\* C16 (as claimed): only failed searches and downloads count as attempts;
\* a failed write ends the run as Failed with the error of the write, no
\* search, download or translation following it; and a run translates at
\* most once.
C16_RetryScope ==
    \A r \in Runs :
        /\ runs[r].attempts = hist[r].searchFails + hist[r].downloadFails
        /\ hist[r].writeFails > 0 =>
              /\ Done(r)
              /\ Result(r) = Failed(ErrWrite)
              /\ hist[r].writeFails = 1
        /\ Translations(r) <= 1

\* C17: the track a run downloads is the first track of the provider's list
\* with language 'en' if there is one, and the first track of the list
\* otherwise; a search that returns no list or an empty list fails the
\* attempt with 'No subtitles found', and every search is followed by one
\* download or by none, when it failed.
C17_TrackSelection ==
    \A r \in Runs :
        LET subs == catalog.tracks[runs[r].key] IN
        /\ hist[r].downloadCalls > 0 =>
              /\ subs # <<>>
              /\ \/ \E i \in DOMAIN subs :
                      /\ subs[i].language = EN
                      /\ \A j \in 1..(i - 1) : subs[j].language # EN
                      /\ runs[r].url = subs[i].url
                 \/ /\ \A i \in DOMAIN subs : subs[i].language # EN
                    /\ runs[r].url = subs[1].url
        /\ hist[r].searchCalls =
              hist[r].downloadCalls + hist[r].searchFails
                 + (IF runs[r].pc = "search" THEN 1 ELSE 0)
        /\ hist[r].searchFails > 0 => hist[r].lastError = ErrNoSubtitles
        /\ subs = <<>> => hist[r].downloadCalls = 0

\* the list has two English tracks with different URLs behind a track in
\* another language, and the run downloads the first English one
C17_Witness ==
    \E r \in Runs :
        LET subs == catalog.tracks[runs[r].key] IN
        /\ hist[r].downloadCalls > 0
        /\ Len(subs) = 3
        /\ subs[1].language = FR /\ subs[2].language = EN /\ subs[3].language = EN
        /\ subs[1].url # subs[2].url /\ subs[3].url # subs[2].url
        /\ runs[r].url = subs[2].url

\* C18 (as claimed): two distinct cache keys never have the same path.
C18_PathInjective ==
    convOut # <<>> => (convIn[1] # convIn[2] => convOut[1] # convOut[2])

\* the body gives season and episode as numbers or as strings of digits
NumericSeason(body) ==
    \A v \in {body.season, body.episode} :
        \/ v.t = "number"
        \/ v.t = "string" /\ AllDigits(v.s)

\* C19 (as claimed): the subtitleUrl of a success response, taken relative
\* to /subtitles/, is the path, relative to BASE_DIR, at which the call
\* found or wrote the artifact.
C19_UrlNamesArtifact ==
    (/\ convOut # <<>>
     /\ convOut[1].status = 200
     /\ convIn.type = "movie" \/ NumericSeason(convIn)) =>
        /\ Result("r1").success
        /\ existsSync(files, Result("r1").path)
        /\ convOut[1].subtitleUrl = SubtitlesPrefix \o Result("r1").path

\* the step in which the download of run r returns and translateSubtitle
\* calls translateTextWithQueue for each distinct line
TranslateStarts(r) ==
    /\ runs[r].pc = "download"
    /\ runs'[r].pc # "download"
    /\ hist'[r].downloadFails = hist[r].downloadFails

\* C20: a call of translateTextWithQueue for a text that translationCache
\* holds resolves with the cached entry; it starts no call, enqueues no
\* request and changes neither activeRequests nor requestQueue nor the
\* cache: only the lines the cache does not hold add a request, started or
\* queued.
C20_CacheHit ==
    [][\A r \in Runs :
          TranslateStarts(r) =>
             LET u == Range(runs'[r].uniqueLines)
                 hit == {l \in u : CacheKeyOf(EN, CKB, l) \in DOMAIN translationCache}
                 before == Len(hist[r].calls)
                 called == {hist'[r].calls[i] : i \in (before + 1)..Len(hist'[r].calls)}
             IN  /\ translationCache' = translationCache
                 /\ \A l \in hit :
                       /\ Request(r, l) \notin inFlight'
                       /\ Request(r, l) \notin Range(requestQueue')
                       /\ l \notin called
                       /\ l \in DOMAIN hist'[r].resolved
                       /\ hist'[r].resolved[l] = translationCache[CacheKeyOf(EN, CKB, l)]
                 /\ hist'[r].hits = hist[r].hits + Cardinality(hit)
                 /\ (activeRequests' + Len(requestQueue'))
                       - (activeRequests + Len(requestQueue))
                    = Cardinality(u \ hit)
                 /\ hit = u =>
                       /\ requestQueue' = requestQueue
                       /\ activeRequests' = activeRequests
                       /\ inFlight' = inFlight
    ]_vars

\* a run all of whose lines were in translationCache: it made no call
C20_Witness ==
    \E r \in Runs :
        /\ Done(r)
        /\ hist[r].hits = Len(runs[r].uniqueLines)
        /\ hist[r].hits >= 2
        /\ hist[r].calls = <<>>

\* the requests whose HTTP call returns in the step
Returned == inFlight \ inFlight'

\* the call of req returned no OK answer in the step
CallFailed(req) == hist'[req.run].okCalls = hist[req.run].okCalls

\* C21: a request whose call fails resolves with its text and leaves
\* translationCache as it was; a request whose call returned OK resolves
\* with the entry the cache then holds for its key; a request never
\* rejects; and the cache changes only in a step in which a call returned
\* OK, and only at the key of that call.
C21_PerLineFailure ==
    [][/\ \A req \in Returned :
             /\ req.text \notin runs'[req.run].pending
             /\ req.text \in DOMAIN hist'[req.run].resolved
             /\ CallFailed(req) =>
                   /\ translationCache' = translationCache
                   /\ hist'[req.run].resolved[req.text] = req.text
             /\ ~CallFailed(req) =>
                   /\ req.cacheKey \in DOMAIN translationCache'
                   /\ translationCache'[req.cacheKey]
                         = hist'[req.run].resolved[req.text]
       /\ translationCache' # translationCache =>
             \E req \in Returned :
                 /\ ~CallFailed(req)
                 /\ \A k \in DOMAIN translationCache' \ {req.cacheKey} :
                       /\ k \in DOMAIN translationCache
                       /\ translationCache'[k] = translationCache[k]
    ]_vars

\* a call for a line failed, nothing was cached for the line, and a later
\* request of the same run for the same line issued a new call
C21_Witness ==
    \E r \in Runs :
        \E i, j \in DOMAIN hist[r].calls :
            /\ i < j
            /\ hist[r].calls[i] = hist[r].calls[j]
            /\ CacheKeyOf(EN, CKB, hist[r].calls[i]) \notin DOMAIN translationCache

\* the request waits in requestQueue
Queued(req) == req \in Range(requestQueue)

\* the environment is able to return the call of req
CanReturn(req) == AnswerFor(req.text) = "error" => MayFail(1)

\* C22: when every call of the translation service returns or fails, every
\* request in requestQueue is started and resolved in the end, and every
\* run that waits in translateSubtitle gets past it and returns its
\* artifact, whichever of its calls failed. (No outstanding call is ever
\* unable to return, so the assumption excludes no reachable state.)
C22_TranslationCompletes ==
    /\ [](\A req \in inFlight : CanReturn(req))
    /\ \A req \in PoolRequests :
          Queued(req) ~> (~Queued(req) /\ req \notin inFlight)
    /\ \A r \in Runs :
          (runs[r].pc = "translate") ~> (Done(r) /\ runs[r].result.success)

\* a run with more distinct lines than slots, one of whose calls failed, has
\* returned while the other run had requests of its own
C22_Witness ==
    \E r \in Runs :
        /\ Done(r)
        /\ Len(runs[r].uniqueLines) > MAX_CONCURRENT_REQUESTS
        /\ hist[r].okCalls < Len(hist[r].calls)
        /\ \E o \in Runs \ {r} : hist[o].calls # <<>>

\* line.trim() is empty
Blank(line) == \A i \in 1..Len(line) : line[i] \in Space

\* an empty or white-space line, a timing line or a cue-index line
Passthrough(line) == Blank(line) \/ IncludesArrow(line) \/ AllDigits(line)

\* translateSubtitle of run r has returned
Translates(r) == "translate" \in Range(hist[r].stages)

\* C23: a line of the document that is empty or white space, contains
\* '-->' or consists of digits is in no call of the translation service and
\* stands unchanged at its position in the output of translateSubtitle; the
\* lines that are submitted are the other lines of the document.
C23_Passthrough ==
    \A r \in Runs :
        LET ls == Split(runs[r].srtContent)
            out == Split(hist[r].output)
        IN  /\ runs[r].pc \in {"translate", "done"} =>
                  /\ \A i \in 1..Len(ls) :
                        Passthrough(ls[i]) => ls[i] \notin Range(hist[r].calls)
                  /\ \A c \in Range(hist[r].calls) :
                        c \in Range(ls) /\ ~Passthrough(c)
            /\ Translates(r) =>
                  /\ Len(out) = Len(ls)
                  /\ \A i \in 1..Len(ls) : Passthrough(ls[i]) => out[i] = ls[i]

\* the output of a document with a cue index, a timing line and a text line
\* that was translated
C23_Witness ==
    /\ Translates("r1")
    /\ Split(runs["r1"].srtContent) = <<<<"1">>, TimingLine, Hi>>
    /\ Split(hist["r1"].output) = <<<<"1">>, TimingLine, ServiceTranslation(Hi)>>

\* String.prototype.trim, as the claims use it
Trim(line) ==
    LET kept == {i \in 1..Len(line) : line[i] \notin Space} IN
    IF kept = {} THEN <<>>
    ELSE SubSeq(line, CHOOSE i \in kept : \A j \in kept : i <= j,
                      CHOOSE i \in kept : \A j \in kept : j <= i)

\* C24: the translatable lines of a document that are equal after trimming
\* are covered by one distinct-line request of the run.
C24_TrimmedDedup ==
    \A r \in Runs :
        runs[r].pc \in {"translate", "done"} =>
            LET ls == Split(runs[r].srtContent)
                u == runs[r].uniqueLines
            IN  \A i \in 1..Len(ls) :
                    ~Passthrough(ls[i]) =>
                        Cardinality({k \in 1..Len(u) : Trim(u[k]) = Trim(ls[i])}) = 1

\* what the distinct-line request of the run for `line` resolved with, or
\* the line when that is empty or missing
Substitute(resolved, line) ==
    IF line \in DOMAIN resolved /\ resolved[line] # <<>>
    THEN resolved[line]
    ELSE line

\* C25: in the output of translateSubtitle a translatable line is replaced
\* by what the request for that very line resolved with (by the line itself
\* when that is empty or missing), so that equal lines are replaced by equal
\* text.
C25_ConsistentSubstitution ==
    \A r \in Runs :
        Translates(r) =>
            LET ls == Split(runs[r].srtContent)
                out == Split(hist[r].output)
            IN  /\ Len(out) = Len(ls)
                /\ \A i \in 1..Len(ls) :
                      ~Passthrough(ls[i]) =>
                          out[i] = Substitute(hist[r].resolved, ls[i])
                /\ \A i, j \in 1..Len(ls) : ls[i] = ls[j] => out[i] = out[j]

\* a line that stands twice around another line: both occurrences carry the
\* translation of the line, the line between them its own
C25_Witness ==
    /\ Translates("r1")
    /\ Split(runs["r1"].srtContent) = <<Hi, <<" ">> \o Hi, Hi>>
    /\ Split(hist["r1"].output)
          = <<ServiceTranslation(Hi), ServiceTranslation(<<" ">> \o Hi),
              ServiceTranslation(Hi)>>

\* the rendering of an integer that is no less than 0
IsInteger(s) == AllDigits(s)

\* C26: the call the route makes into the pipeline passes a season and an
\* episode that are both integers exactly when it passes the type 'tv', and
\* passes null for both when it passes the type 'movie'.
C26_RouteKeyInvariant ==
    runs["r1"].pc # "idle" =>
        LET k == runs["r1"].key IN
        /\ k.type = "tv" <=> (IsInteger(k.season) /\ IsInteger(k.episode))
        /\ k.type = "movie" => (k.season = Null /\ k.episode = Null)

\* the request lacks tmdbId or type, or is of type 'tv' or 'anime' and lacks
\* season or episode
Invalid(body) ==
    \/ body.tmdbId = Undefined
    \/ body.type = ""
    \/ body.type \in {"tv", "anime"}
          /\ (body.season = Undefined \/ body.episode = Undefined)

\* the response to the request, once it is sent
Response == convOut[1]

\* the response is the one the claim gives for the request and the outcome
\* of the pipeline
ResponseMapping ==
    convOut # <<>> =>
        LET result == runs["r1"].result IN
        IF Invalid(convIn)
        THEN /\ Response.status = 400
             /\ runs["r1"] = IdleRun /\ hist["r1"] = NoHist
        ELSE IF runs["r1"].pc = "threw"
        THEN /\ Response.status = 500
             /\ Response.success = FALSE
             /\ Response.error # ""
        ELSE /\ runs["r1"].pc = "done"
             /\ IF result.success
                THEN /\ Response.status = 200
                     /\ Response.success = TRUE
                     /\ Response.fromCache = result.fromCache
                     /\ "subtitleUrl" \in DOMAIN Response
                ELSE /\ Response.status = 404
                     /\ Response.success = FALSE
                     /\ Response.error # ""
                     /\ result.error # "" => Response.error = result.error

\* while the request is not answered the handler has a step to take, or
\* the pipeline waits for an answer of its environment
Answerable ==
    convOut = <<>> =>
        \/ runs["r1"].pc \in {"idle", "resolve", "search", "sleep", "download",
                               "done", "threw"}
        \/ runs["r1"].pc = "translate" /\ \E req \in inFlight : req.run = "r1"

\* C27: a request is answered once: the response, once sent, never changes,
\* and a request that is not yet answered is never stuck without a step
\* that leads to its answer; an invalid request gets 400 and the
\* pipeline is not called; a result with success = false gets 404 with
\* success false and the error; a successful result gets success true, the
\* URL and the fromCache of the result; an exception of the pipeline gets
\* 500 with success false and an error.
C27_ResponseMapping ==
    /\ []ResponseMapping
    /\ []Answerable
    /\ [][convOut # <<>> => convOut' = convOut]_vars

\* a request for an artifact that exists is answered with fromCache: true
C27_Witness ==
    /\ convOut # <<>>
    /\ Response.status = 200
    /\ Response.fromCache

CatalogLines == UNION {Range(Split(catalog.body[u])) : u \in DOMAIN catalog.body}

\* C29: the value translationCache holds for the key of a line is the
\* translation the service returns for the line, never the line stored
\* because the answer of the service carried no translation.
C29_CachedTranslations ==
    \A l \in CatalogLines :
        LET cacheKey == CacheKeyOf(EN, CKB, l) IN
        cacheKey \in DOMAIN translationCache =>
            /\ ServiceTranslation(l) # <<>>
            /\ translationCache[cacheKey] = ServiceTranslation(l)

\* the requests started in the step
StartedNow == inFlight' \ inFlight

\* C30: activeRequests is the number of started requests whose call has not
\* returned, it lies between 0 and MAX_CONCURRENT_REQUESTS, and it is
\* MAX_CONCURRENT_REQUESTS whenever requests wait in requestQueue; a step
\* takes one slot for each request it starts and frees one for each call
\* that returns, whether the call succeeded or failed.
C30_SlotAccounting ==
    /\ [](/\ activeRequests = Cardinality(inFlight)
          /\ 0 <= activeRequests
          /\ activeRequests <= MAX_CONCURRENT_REQUESTS
          /\ requestQueue # <<>> => activeRequests = MAX_CONCURRENT_REQUESTS)
    /\ [][/\ activeRequests' = activeRequests - Cardinality(Returned)
                                   + Cardinality(StartedNow)
          /\ Cardinality(Returned) <= 1
          /\ Returned \cap StartedNow = {}
       ]_vars

\* requests still wait for a slot after a call has failed and another has
\* succeeded
C30_Witness ==
    /\ requestQueue # <<>>
    /\ activeRequests = MAX_CONCURRENT_REQUESTS
    /\ \E r, o \in Runs :
          /\ hist[r].okCalls > 0
          /\ hist[o].okCalls + Cardinality({req \in inFlight : req.run = o})
                < Len(hist[o].calls)

\* run r is called in the step
Starts(r) == runs[r].pc = "idle" /\ runs'[r].pc # "idle"

\* the step is a call of getSubtitlePath
Looks == <<convIn', convOut'>> # <<convIn, convOut>>

\* C31: a call of fetchAndTranslateSubtitle returns a cache hit exactly when
\* getSubtitlePath, called with the same arguments on the same file system,
\* returns a path, and then reports that path; a call of getSubtitlePath
\* returns the path of the artifact when it exists and null otherwise, and
\* changes neither the file system, the caches, the queue nor any run.
C31_LookupAgrees ==
    [][/\ \A r \in Runs :
             Starts(r) =>
                LET k == runs'[r].key
                    looked == getSubtitlePath(files, k)
                    hit == runs'[r].pc = "done" /\ runs'[r].result.fromCache
                IN  /\ hit <=> looked # <<>>
                    /\ hit => runs'[r].result.path = looked[1]
       /\ Looks =>
             /\ pipeVars' = pipeVars
             /\ convOut'[1] # <<>> <=> files[PathOf(convIn')] # NoFile
             /\ convOut'[1] # <<>> => convOut'[1][1] = PathOf(convIn')
    ]_vars

\* getSubtitlePath has returned the path of the episode, and a later call
\* of fetchAndTranslateSubtitle for the episode was a cache hit on that path
C31_Witness ==
    /\ convOut # <<>>
    /\ convOut[1] # <<>>
    /\ convIn = EpisodeKey
    /\ \E r \in Runs :
          /\ Done(r)
          /\ hist[r].resolveCalls = 0
          /\ runs[r].result = CacheHit(convOut[1][1])

\* the step stores a new password for some account
PasswordChanges == web'.users # web.users

\* request q is answered in the step that its token has expired
Refused(q) ==
    /\ web.reqs[q].pc = "idle"
    /\ web'.reqs[q].pc = "done"
    /\ web'.reqs[q].response = "expired"

\* C32: a password changes only in the step of a POST /recover whose token
\* was stored by POST /forgot-password, was at most ResetTtl old when it was
\* checked, and has not been used for an update before; no token is used
\* for more than one update; and a token that is refused is in resetTokens
\* no more.
C32_SingleUseToken ==
    /\ [](\A t \in Tokens : web.updates[t] <= 1)
    /\ [][/\ PasswordChanges =>
                \E q \in Reqs :
                    /\ web.reqs[q].pc = "update"
                    /\ web'.reqs[q].pc = "done"
                    /\ web.reqs[q].token \in web.issued
                    /\ web.reqs[q].age <= ResetTtl
                    /\ web.updates[web.reqs[q].token] = 0
          /\ \A q \in Reqs :
                Refused(q) => web'.reqs[q].token \notin DOMAIN web'.resetTokens
       ]_vars

\* the step creates a user account
AccountCreated == web'.accounts # web.accounts

\* request q is answered in the step, with `response`
Answered(q, response) ==
    /\ web.reqs[q].pc = "idle"
    /\ web'.reqs[q].pc = "done"
    /\ web'.reqs[q].response = response

\* what POST /verify does besides the comparison of the code: no token
\* creates two accounts; a wrong code changes nothing but the request; an
\* expired registration is removed and creates no account; a successful
\* verification removes the registration
VerifySteps ==
    /\ \A q \in Reqs :
          /\ Answered(q, "invalid") =>
                /\ web'.tempUsers = web.tempUsers
                /\ web'.accounts = web.accounts
          /\ Answered(q, "expired") =>
                /\ web'.reqs[q].token \notin DOMAIN web'.tempUsers
                /\ web'.accounts = web.accounts
    /\ AccountCreated =>
          \E q \in Reqs :
              /\ web.reqs[q].pc = "save"
              /\ web'.reqs[q].pc = "done"
              /\ web'.reqs[q].response = "redirect"
              /\ web.reqs[q].token \in web.issued
              /\ web.reqs[q].age <= VerifyTtl
              /\ web.created[web.reqs[q].token] = 0
              /\ web.reqs[q].token \notin DOMAIN web'.tempUsers

\* C33 (as claimed): an account is created only for a pending registration
\* that is at most VerifyTtl old and whose verification code equals the
\* submitted code.
C33_VerifyGateAsClaimed ==
    [][/\ VerifySteps
       /\ AccountCreated =>
             \E q \in Reqs :
                 /\ web.reqs[q].pc = "save" /\ web'.reqs[q].pc = "done"
                 /\ web.reqs[q].code = web.reqs[q].expected
    ]_vars

\* C33 (amended): an account is created only for a pending registration
\* that is at most VerifyTtl old and whose verification code equals the
\* submitted code converted to upper case; a code that differs also after
\* the conversion leaves the registration unchanged and creates no account.
C33_VerifyGate ==
    /\ [](\A t \in VerifyTokens : web.created[t] <= 1)
    /\ [][/\ VerifySteps
          /\ AccountCreated =>
                \E q \in Reqs :
                    /\ web.reqs[q].pc = "save" /\ web'.reqs[q].pc = "done"
                    /\ toUpperCase(web.reqs[q].code) = web.reqs[q].expected
          /\ \A q \in Reqs :
                (/\ web.reqs[q].pc = "idle" /\ web'.reqs[q].pc # "idle"
                 /\ web'.reqs[q].token \in DOMAIN web.tempUsers
                 /\ toUpperCase(web'.reqs[q].code)
                       # web.tempUsers[web'.reqs[q].token].verificationCode)
                    => /\ web'.reqs[q].pc = "done"
                       /\ web'.tempUsers \in {web.tempUsers,
                             removeTempUser(web.tempUsers, web'.reqs[q].token)}
       ]_vars

\* a token has created an account, a second request with the same token and
\* the right code was refused, and a request with a wrong code was refused
C33_Witness ==
    \E t \in VerifyTokens :
        /\ web.created[t] = 1
        /\ t \notin DOMAIN web.tempUsers
        /\ web.reqs["q1"].pc = "done" /\ web.reqs["q1"].token = t
        /\ web.reqs["q1"].response = "redirect"
        /\ web.reqs["q2"].pc = "done" /\ web.reqs["q2"].token = t
        /\ web.reqs["q2"].response \in {"expired", "error"}

\* the comments of one user on one title
CommentsOf(userId, tmdbId) ==
    {c \in web.comments : c.user_id = userId /\ c.tmdb_id = tmdbId}

\* C34: the comment store holds at most one comment for each pair
\* (user id, tmdbId), whatever the interleaving of add and delete requests;
\* a step that answers an add stores a comment only for a user who has none
\* on the title, and answers 409 otherwise; a request without a session user
\* never changes the store.
C34_OneCommentPerTitle ==
    /\ [](\A u \in Accounts, t \in Titles : Cardinality(CommentsOf(u, t)) <= 1)
    /\ [][\A q \in Reqs :
            /\ (web.reqs[q].pc = "save" /\ web'.reqs[q].pc = "done"
                  /\ findOne(web.comments, web.reqs[q].tmdbId, web.reqs[q].user))
               => web'.comments = web.comments
            /\ (web.reqs[q].pc = "find" /\ web'.reqs[q].pc = "done"
                  /\ findOne(web.comments, web.reqs[q].tmdbId, web.reqs[q].user))
               => web'.comments = web.comments /\ web'.reqs[q].status \in {409, 500}
            /\ (Free(q) /\ web'.reqs[q] # web.reqs[q] /\ web'.reqs[q].pc = "done"
                  /\ web'.reqs[q].user = NoUser)
               => web'.comments = web.comments /\ web'.reqs[q].status = 401
       ]_vars

\* caller c calls getCached in this step
Calls(c) == Free(c) /\ web'.reqs[c] # web.reqs[c]

\* the fetch of caller c fails in this step
FetchFails(c) ==
    /\ web.reqs[c].pc = "http"
    /\ web'.reqs[c].pc = "done"
    /\ web'.reqs[c].outcome = "error"

\* C35: getCached invokes the fetcher exactly when the entry of the key has
\* no data or its timestamp is at least CACHE_TTL old; data returned without
\* a fetch is the data of a fetch for the same key that started less than
\* CACHE_TTL earlier; a fetch that fails leaves the cache as it was and the
\* caller gets the error; the cache changes only when a fetch succeeds.
C35_TtlCache ==
    [][/\ web'.cache # web.cache =>
            \E c \in Reqs :
                /\ web.reqs[c].pc = "http"
                /\ web'.reqs[c].pc = "done"
                /\ web'.reqs[c].outcome = "fetched"
                /\ web'.cache =
                      [web.cache EXCEPT
                         ![web.reqs[c].key] =
                             [data |-> web'.reqs[c].data,
                              timestamp |-> web.reqs[c].started]]
       /\ \A c \in Reqs :
          LET call == web'.reqs[c]
              entry == web.cache[call.key]
          IN  /\ Calls(c) =>
                    /\ call.pc = "http" <=>
                          \/ entry.data = NoData
                          \/ web.now - entry.timestamp >= CACHE_TTL
                    /\ call.pc # "http" =>
                          /\ call.pc = "done" /\ call.outcome = "cached"
                          /\ call.data = entry.data
                          /\ call.data.key = call.key
                          /\ web.now - call.data.started < CACHE_TTL
                    /\ web'.cache = web.cache
              /\ FetchFails(c) => web'.cache = web.cache
      ]_vars

\* a caller is answered from an entry that was fetched after the first
\* entry of the key had expired
C35_Witness ==
    \E c \in Reqs :
        /\ web.reqs[c].pc = "done"
        /\ web.reqs[c].outcome = "cached"
        /\ web.reqs[c].data.started >= CACHE_TTL

\* C36: fetchTMDB retries only after a status 429 and only from the wait of
\* its timer; one call sends at most 1 + 3 requests, and it throws on the
\* 429 of the fourth; a non-OK status other than 429 throws in the step in
\* which it arrives; and every call that has begun returns.
C36_RateLimitRetry ==
    /\ [](\A c \in Reqs :
            /\ web.reqs[c].requests <= 1 + fetchRetries
            /\ web.reqs[c].pc = "wait" => web.reqs[c].status = 429)
    /\ [][\A c \in Reqs :
            /\ (web'.reqs[c].requests > web.reqs[c].requests /\ ~Calls(c))
                  => /\ web.reqs[c].pc = "wait"
                     /\ web'.reqs[c].requests = web.reqs[c].requests + 1
            /\ (FetchFails(c) /\ web'.reqs[c].status = 429)
                  => web.reqs[c].requests = 1 + fetchRetries
            /\ (web.reqs[c].pc = "http" /\ web'.reqs[c].pc = "http")
                  => web'.reqs[c] = web.reqs[c]
       ]_vars
    /\ \A c \in Reqs :
          (web.reqs[c].pc \in {"http", "wait"}) ~> (web.reqs[c].pc = "done")

\* a call has thrown after the 429 of its last request
C36_Witness ==
    \E c \in Reqs :
        /\ web.reqs[c].pc = "done"
        /\ web.reqs[c].outcome = "error"
        /\ web.reqs[c].status = 429

\* the lines of the document of run r in the order in which
\* translateSubtitle pushes their requests
PushOrder(r) == uniqueLines(IF r = "r1" THEN PoolDoc ELSE DocB)

\* the place of a line in the push order of run r
PushIndex(r, text) ==
    CHOOSE i \in 1..Len(PushOrder(r)) : PushOrder(r)[i] = text

\* the texts of the requests of run r in a sequence of requests
TextsOf(r, reqs) ==
    LET mine == SelectSeq(reqs, LAMBDA req : req.run = r) IN
    [i \in 1..Len(mine) |-> mine[i].text]

\* the texts of the requests of run r started in the step, in start order
StartedTexts(r) ==
    SubSeq(hist'[r].calls, Len(hist[r].calls) + 1, Len(hist'[r].calls))

\* C37: requests are started in the order in which they were pushed to
\* requestQueue, across all runs: the requests that a step starts from the
\* queue are the first ones of the queue, in the order of the queue; the
\* rest of the queue keeps its order and its place before the requests
\* pushed in the step; and a request pushed in the step is started only if
\* no request pushed before it is left waiting.
C37_FifoStart ==
    [][\E k \in 0..Len(requestQueue) :
          LET n == Len(requestQueue)
              taken == SubSeq(requestQueue, 1, k)
              left == SubSeq(requestQueue, k + 1, n)
              pushed == SubSeq(requestQueue', n - k + 1, Len(requestQueue'))
          IN  /\ Range(taken) \subseteq StartedNow
              /\ Len(requestQueue') >= n - k
              /\ SubSeq(requestQueue', 1, n - k) = left
              /\ k < n => StartedNow = Range(taken)
              /\ \A r \in Runs :
                    LET old == TextsOf(r, taken)
                        started == StartedTexts(r)
                        new == SubSeq(started, Len(old) + 1, Len(started))
                                  \o TextsOf(r, pushed)
                    IN  /\ Len(started) >= Len(old)
                        /\ SubSeq(started, 1, Len(old)) = old
                        /\ new # <<>> => left = <<>> \/ Len(started) = Len(old)
                        /\ \A i, j \in 1..Len(new) :
                              i < j => PushIndex(r, new[i]) < PushIndex(r, new[j])
      ]_vars

\* a request of one run was started from the queue while the requests of
\* the other run, pushed after it, still wait
C37_Witness ==
    /\ requestQueue # <<>>
    /\ \E r, o \in Runs :
          /\ r # o
          /\ Len(hist[r].calls) > MAX_CONCURRENT_REQUESTS
          /\ hist[o].calls = <<>>
          /\ \A i \in 1..Len(requestQueue) : requestQueue[i].run = o

====
